---- MODULE Spec2Model ----
(***************************************************************************)
(* move2jelly (src/move2jelly/src/index.ts): the batch that renames the    *)
(* video files of an incoming directory after the records of a remote      *)
(* catalog and moves or hard-links them into a media library.              *)
(*                                                                         *)
(* A string is a sequence of one-character strings.  The regular           *)
(* expressions of the source are written out as operators that return the  *)
(* position of the leftmost match, 0 when there is none.                   *)
(***************************************************************************)
EXTENDS Integers, Sequences, FiniteSets, TLC

\* ------------------------------------------------------------------------
\* Bounds of the model
\* ------------------------------------------------------------------------

\* longest candidate list a search answers with
MaxResults == 2

\* number of times the tool is started on the same directories
MaxRuns == 2

\* ------------------------------------------------------------------------
\* Characters
\* ------------------------------------------------------------------------

Digits == {"0", "1", "2", "3", "4", "5", "6", "7", "8", "9"}

LowerCase ==
    {"a", "b", "c", "d", "e", "f", "g", "h", "i", "j", "k", "l", "m",
     "n", "o", "p", "q", "r", "s", "t", "u", "v", "w", "x", "y", "z"}

UpperToLower ==
    "A" :> "a" @@ "B" :> "b" @@ "C" :> "c" @@ "D" :> "d" @@ "E" :> "e" @@
    "F" :> "f" @@ "G" :> "g" @@ "H" :> "h" @@ "I" :> "i" @@ "J" :> "j" @@
    "K" :> "k" @@ "L" :> "l" @@ "M" :> "m" @@ "N" :> "n" @@ "O" :> "o" @@
    "P" :> "p" @@ "Q" :> "q" @@ "R" :> "r" @@ "S" :> "s" @@ "T" :> "t" @@
    "U" :> "u" @@ "V" :> "v" @@ "W" :> "w" @@ "X" :> "x" @@ "Y" :> "y" @@
    "Z" :> "z"

UpperCase == DOMAIN UpperToLower

\* \w of the regular expressions
WordChars == LowerCase \cup UpperCase \cup Digits \cup {"_"}

\* \s of the regular expressions (the file names of the model hold no other
\* white space than the blank)
WhiteSpace == {" "}

\* the NUL character, one element of a string like any other character
NUL == "NUL"

\* an accented letter and its base letter under NFD with the combining marks
\* removed; "E+" stands for the letter E with an acute accent (U+00C9) and
\* "e+" for its lower case (U+00E9)
Accented == "e+" :> "e" @@ "E+" :> "e"

\* String.prototype.toLowerCase, one character
LowerChar(c) ==
    IF c \in UpperCase THEN UpperToLower[c]
    ELSE IF c = "E+" THEN "e+"
    ELSE c

\* ------------------------------------------------------------------------
\* String helpers (JavaScript's String methods)
\* ------------------------------------------------------------------------

\* the character at position i, "" outside the string
Ch(s, i) == IF i >= 1 /\ i <= Len(s) THEN s[i] ELSE ""

\* the smallest element of a set of positions, 0 for the empty set
MinPos(S) == IF S = {} THEN 0 ELSE CHOOSE i \in S : \A j \in S : i <= j

\* the largest element of a set of positions, 0 for the empty set
MaxPos(S) == IF S = {} THEN 0 ELSE CHOOSE i \in S : \A j \in S : i >= j

ToLower(s) == [i \in 1..Len(s) |-> LowerChar(s[i])]

\* s.slice(from - 1): the characters from position `from` on
From(s, from) == SubSeq(s, from, Len(s))

\* String.prototype.trim
Trim(s) ==
    LET keep == {i \in 1..Len(s) : s[i] \notin WhiteSpace}
    IN  IF keep = {} THEN <<>> ELSE SubSeq(s, MinPos(keep), MaxPos(keep))

\* String.prototype.startsWith
StartsWith(s, p) == Len(p) <= Len(s) /\ SubSeq(s, 1, Len(p)) = p

\* s.split(/[chars]/)[0]: the text before the first character of `chars`
Before(s, chars) ==
    LET hit == MinPos({i \in 1..Len(s) : s[i] \in chars})
    IN  IF hit = 0 THEN s ELSE SubSeq(s, 1, hit - 1)

\* whether `sub` occurs in s at position i
OccursAt(s, sub, i) ==
    i >= 1 /\ i + Len(sub) - 1 <= Len(s) /\ SubSeq(s, i, i + Len(sub) - 1) = sub

\* String.prototype.includes
Contains(s, sub) == \E i \in 1..Len(s) : OccursAt(s, sub, i)

\* s.replace(/[chars]/g, by): every character of `chars` becomes `by`
ReplaceChars(s, chars, by) ==
    [i \in 1..Len(s) |-> IF s[i] \in chars THEN by ELSE s[i]]

\* s.replace(/sub/g, by) for a literal sub: the matches are taken left to
\* right and do not overlap
RECURSIVE ReplaceAll(_, _, _)
ReplaceAll(s, sub, by) ==
    IF Len(s) < Len(sub) THEN s
    ELSE IF OccursAt(s, sub, 1)
         THEN by \o ReplaceAll(From(s, Len(sub) + 1), sub, by)
         ELSE <<s[1]>> \o ReplaceAll(Tail(s), sub, by)

\* the position after the run of characters of `class` that starts at i
RECURSIVE RunEnd(_, _, _)
RunEnd(s, i, class) ==
    IF Ch(s, i) \in class THEN RunEnd(s, i + 1, class) ELSE i

\* parseInt(digits, 10) of a non-empty digit string
RECURSIVE ParseInt(_)
ParseInt(d) ==
    IF d = <<>> THEN 0
    ELSE 10 * ParseInt(SubSeq(d, 1, Len(d) - 1))
           + (CHOOSE n \in 0..9 : ToString(n) = d[Len(d)])

\* String(n) of a natural number
RECURSIVE NumStr(_)
NumStr(n) ==
    IF n < 10 THEN <<ToString(n)>>
    ELSE NumStr(n \div 10) \o <<ToString(n % 10)>>

\* a faulty PadStart2 that pads nothing
PadStart2Unpadded(n) == NumStr(n)

\* String(n).padStart(2, '0')
PadStart2(n) == IF n < 10 THEN <<"0">> \o NumStr(n) ELSE NumStr(n)

\* ------------------------------------------------------------------------
\* Text normalizer
\* ------------------------------------------------------------------------

\* iconv.decode(Buffer.from(filename, 'binary'), 'win1252'), one character:
\* Buffer.from keeps the low byte of each UTF-16 unit and win1252 maps the
\* byte back; the ASCII and Latin-1 letters of the model come back unchanged,
\* a character above U+00FF comes back as its low byte ("U+015B" -> "[")
DecodeChar(c) == IF c = "U+015B" THEN "[" ELSE c

Decode(filename) == [i \in 1..Len(filename) |-> DecodeChar(filename[i])]

\* /(\.[^.\s]+)$/ : the position of the dot of the extension, 0 if no match
ExtensionPos(s) ==
    LET dot == MaxPos({i \in 1..Len(s) : s[i] = "."})
    IN  IF dot = 0 \/ dot = Len(s) THEN 0
        ELSE IF \E i \in (dot + 1)..Len(s) : s[i] \in WhiteSpace THEN 0
        ELSE dot

\* s.replace(/(\.[^.\s]+)$/, '')
StripExtension(s) ==
    IF ExtensionPos(s) = 0 THEN s ELSE SubSeq(s, 1, ExtensionPos(s) - 1)

simplify(str) ==
    LET lower == ToLower(str)
        nfd   == [i \in 1..Len(lower) |->
                    IF lower[i] \in DOMAIN Accented THEN Accented[lower[i]]
                    ELSE lower[i]]
    IN  SelectSeq(nfd, LAMBDA c : c \in LowerCase \cup Digits)

\* a faulty sanitizeFilename, without its second replace: the colon stays
sanitizeSlashes(name) == ReplaceChars(name, {"/", NUL}, "-")

sanitizeFilename(name) ==
    ReplaceChars(ReplaceChars(name, {"/", NUL}, "-"), {":"}, ".")

\* s.replace(/B\s*/g, ' B') for an opening bracket B
RECURSIVE SpaceBeforeOpen(_, _)
SpaceBeforeOpen(s, open) ==
    IF s = <<>> THEN <<>>
    ELSE IF s[1] = open
         THEN <<" ", open>>
                \o SpaceBeforeOpen(From(s, RunEnd(s, 2, WhiteSpace)), open)
         ELSE <<s[1]>> \o SpaceBeforeOpen(Tail(s), open)

\* s.replace(/\s*B/g, 'B ') for a closing bracket B
RECURSIVE SpaceAfterClose(_, _)
SpaceAfterClose(s, close) ==
    IF s = <<>> THEN <<>>
    ELSE LET e == RunEnd(s, 1, WhiteSpace)
         IN  IF Ch(s, e) = close
             THEN <<close, " ">> \o SpaceAfterClose(From(s, e + 1), close)
             ELSE <<s[1]>> \o SpaceAfterClose(Tail(s), close)

\* s.replace(/\s+/g, ' ')
RECURSIVE CollapseSpaces(_)
CollapseSpaces(s) ==
    IF s = <<>> THEN <<>>
    ELSE IF s[1] \in WhiteSpace
         THEN <<" ">> \o CollapseSpaces(From(s, RunEnd(s, 1, WhiteSpace)))
         ELSE <<s[1]>> \o CollapseSpaces(Tail(s))

cleanTitle(title) ==
    LET a == StripExtension(title)
        b == ReplaceChars(a, {".", "_"}, " ")
        c == SpaceBeforeOpen(b, "[")
        d == SpaceAfterClose(c, "]")
        e == SpaceBeforeOpen(d, "(")
        f == SpaceAfterClose(e, ")")
    IN  Trim(CollapseSpaces(f))

\* ------------------------------------------------------------------------
\* Entity parser: the regular expressions
\* ------------------------------------------------------------------------

\* a match of a regular expression: the position of its first character and
\* its length; pos = 0 when there is no match
NoMatch == [pos |-> 0, len |-> 0]

\* /\[tmdbid-(\d+)\]/i at position i: the position after the digits, 0 if
\* the tag does not start at i
TagDigitsEnd(s, i) ==
    LET e == RunEnd(s, i + 8, Digits)
    IN  IF /\ i + 8 <= Len(s)
           /\ ToLower(SubSeq(s, i, i + 7))
                = <<"[", "t", "m", "d", "b", "i", "d", "-">>
           /\ e > i + 8
           /\ Ch(s, e) = "]"
        THEN e ELSE 0

\* a faulty TagMatch, without the i flag: /\[tmdbid-(\d+)\]/
TagMatchCaseSensitive(s) ==
    LET i == MinPos({k \in 1..Len(s) :
                       /\ TagDigitsEnd(s, k) # 0
                       /\ SubSeq(s, k, k + 7)
                            = <<"[", "t", "m", "d", "b", "i", "d", "-">>})
    IN  IF i = 0 THEN NoMatch
        ELSE [pos |-> i, len |-> TagDigitsEnd(s, i) + 1 - i]

\* s.match(/\[tmdbid-(\d+)\]/i)
TagMatch(s) ==
    LET i == MinPos({k \in 1..Len(s) : TagDigitsEnd(s, k) # 0})
    IN  IF i = 0 THEN NoMatch
        ELSE [pos |-> i, len |-> TagDigitsEnd(s, i) + 1 - i]

\* the digits captured by TagMatch
TagId(s) ==
    LET m == TagMatch(s) IN SubSeq(s, m.pos + 8, m.pos + m.len - 2)

\* (19|20)\d{2} at position i
YearAt(s, i) ==
    /\ Ch(s, i) \in {"1", "2"}
    /\ <<Ch(s, i), Ch(s, i + 1)>> \in {<<"1", "9">>, <<"2", "0">>}
    /\ Ch(s, i + 2) \in Digits
    /\ Ch(s, i + 3) \in Digits

\* s.match(/[\(\[](19|20)\d{2}[\)\]]/)
BracketYearMatch(s) ==
    LET i == MinPos({k \in 1..Len(s) :
                       /\ s[k] \in {"(", "["}
                       /\ YearAt(s, k + 1)
                       /\ Ch(s, k + 5) \in {")", "]"}})
    IN  IF i = 0 THEN NoMatch ELSE [pos |-> i, len |-> 6]

\* the position of the year of /[\(\[]\D*(19|20)\d{2}[\)\]]/ when the match
\* starts at k: \D* stops at the first digit after k; 0 if no match at k
TextYearAt(s, k) ==
    LET j == RunEnd(s, k + 1, {s[n] : n \in 1..Len(s)} \ Digits)
    IN  IF s[k] \in {"(", "["} /\ YearAt(s, j) /\ Ch(s, j + 4) \in {")", "]"}
        THEN j ELSE 0

\* s.match(/[\(\[]\D*(19|20)\d{2}[\)\]]/)
TextYearMatch(s) ==
    LET i == MinPos({k \in 1..Len(s) : TextYearAt(s, k) # 0})
    IN  IF i = 0 THEN NoMatch
        ELSE [pos |-> i, len |-> TextYearAt(s, i) + 5 - i]

\* s.match(/(19|20)\d{2}/)
BareYearMatch(s) ==
    LET i == MinPos({k \in 1..Len(s) : YearAt(s, k)})
    IN  IF i = 0 THEN NoMatch ELSE [pos |-> i, len |-> 4]

\* a faulty MovieYearMatch that takes the leftmost year of the name
MovieYearMatchLeftmost(clean) == BareYearMatch(clean)

\* the year detection of parseMovieFilename: the first rule that matches
MovieYearMatch(clean) ==
    IF BracketYearMatch(clean).pos # 0 THEN BracketYearMatch(clean)
    ELSE IF TextYearMatch(clean).pos # 0 THEN TextYearMatch(clean)
    ELSE BareYearMatch(clean)

\* \b between positions i - 1 and i
Boundary(s, i) == (Ch(s, i - 1) \in WordChars) # (Ch(s, i) \in WordChars)

\* \d{1,2} at position i followed by the letter `sep` (any case): the
\* position of `sep`, 0 if there is none
SeasonEnd(s, i, sep) ==
    LET e == RunEnd(s, i, Digits)
    IN  IF e - i \in {1, 2} /\ LowerChar(Ch(s, e)) = sep THEN e ELSE 0

\* \d{1,3}\b at position i: the position after the digits, 0 if no match
EpisodeEnd(s, i) ==
    LET e == RunEnd(s, i, Digits)
    IN  IF e - i \in {1, 2, 3} /\ Boundary(s, e) THEN e ELSE 0

\* /\bS(\d{1,2})E(\d{1,3})\b/i at position i: the position of the E, 0 if
\* the token does not start at i
SxxEyyAt(s, i) ==
    LET e == SeasonEnd(s, i + 1, "e")
    IN  IF /\ Boundary(s, i)
           /\ LowerChar(Ch(s, i)) = "s"
           /\ e # 0
           /\ EpisodeEnd(s, e + 1) # 0
        THEN e ELSE 0

\* /\b(\d{1,2})x(\d{1,3})\b/i at position i: the position of the x, 0 if
\* the token does not start at i
NxMAt(s, i) ==
    LET e == SeasonEnd(s, i, "x")
    IN  IF Boundary(s, i) /\ e # 0 /\ EpisodeEnd(s, e + 1) # 0
        THEN e ELSE 0

\* a season/episode token: where it is, the position of its first season
\* digit and the position of its separator letter
NoToken == [pos |-> 0, len |-> 0, season |-> 0, sep |-> 0]

SxxEyyMatch(s) ==
    LET i == MinPos({k \in 1..Len(s) : SxxEyyAt(s, k) # 0})
    IN  IF i = 0 THEN NoToken
        ELSE [pos |-> i, len |-> EpisodeEnd(s, SxxEyyAt(s, i) + 1) - i,
              season |-> i + 1, sep |-> SxxEyyAt(s, i)]

NxMMatch(s) ==
    LET i == MinPos({k \in 1..Len(s) : NxMAt(s, k) # 0})
    IN  IF i = 0 THEN NoToken
        ELSE [pos |-> i, len |-> EpisodeEnd(s, NxMAt(s, i) + 1) - i,
              season |-> i, sep |-> NxMAt(s, i)]

\* clean.match(/\bS(\d{1,2})E(\d{1,3})\b/i) || clean.match(/\b(\d{1,2})x(\d{1,3})\b/i)
EpisodeTokenMatch(clean) ==
    IF SxxEyyMatch(clean).pos # 0 THEN SxxEyyMatch(clean) ELSE NxMMatch(clean)

\* the two capture groups of a season/episode token, as numbers
TokenSeason(s, m) == ParseInt(SubSeq(s, m.season, m.sep - 1))
TokenEpisode(s, m) == ParseInt(SubSeq(s, m.sep + 1, m.pos + m.len - 1))

\* a faulty isEpisodeFile that leaves the underscores in
isEpisodeFileKeepUnderscores(filename) ==
    LET lower == ToLower(filename)
    IN  NxMMatch(lower).pos # 0 \/ SxxEyyMatch(lower).pos # 0

isEpisodeFile(filename) ==
    LET lower == ReplaceChars(ToLower(filename), {"_"}, " ")
    IN  NxMMatch(lower).pos # 0 \/ SxxEyyMatch(lower).pos # 0

\* ------------------------------------------------------------------------
\* The catalog (tmdb-ts): the records it can answer with
\* ------------------------------------------------------------------------

\* Movie records {id, title, release_date, overview}
MovieUp ==
    [id |-> 1, title |-> <<"U", "p">>,
     release_date |-> <<"2", "0", "0", "9", "-", "0", "5">>,
     overview |-> <<"o">>]

\* a title with a colon and a slash, no synopsis
MovieUpColon ==
    [id |-> 2, title |-> <<"U", "p", ":", "/">>,
     release_date |-> <<"2", "0", "0", "9", "-", "1", "0">>,
     overview |-> <<>>]

\* the same title and year as MovieUp, no synopsis
MovieUpBis ==
    [id |-> 3, title |-> <<"U", "p">>,
     release_date |-> <<"2", "0", "0", "9", "-", "0", "1">>,
     overview |-> <<>>]

\* another title, "A - - B / C" and a NUL: the " - " separator twice in a
\* row, and a slash between blanks; no release date
MovieOther ==
    [id |-> 4,
     title |-> <<"A", " ", "-", " ", "-", " ", "B", " ", "/", " ", "C", NUL>>,
     release_date |-> <<>>,
     overview |-> <<"o">>]

\* the same title as MovieUp, of another year
MovieUpOld ==
    [id |-> 5, title |-> <<"U", "P">>,
     release_date |-> <<"1", "9", "8", "4", "-", "1", "2">>,
     overview |-> <<"o">>]

MovieRecords == {MovieUp, MovieUpColon, MovieUpBis, MovieOther, MovieUpOld}

\* Show records {id, name, first_air_date, overview}; first_air_date is
\* empty when the catalog has none
ShowLost ==
    [id |-> 7, name |-> <<"L", "o", "s", "t">>,
     first_air_date |-> <<"2", "0", "0", "4", "-", "0", "9">>,
     overview |-> <<"o">>]

\* the record of the same id in a catalog that has no first-air date for it
ShowLostUndated ==
    [id |-> 7, name |-> <<"L", "o", "s", "t", ":">>,
     first_air_date |-> <<>>,
     overview |-> <<>>]

\* another show of the same simplified name
ShowLostBis ==
    [id |-> 9, name |-> <<"L", "O", "S", "T", "/">>,
     first_air_date |-> <<"2", "0", "1", "0", "-", "0", "1">>,
     overview |-> <<>>]

ShowOther ==
    [id |-> 5, name |-> <<"L", "/", "X">>,
     first_air_date |-> <<"1", "9", "9", "9", "-", "0", "1">>,
     overview |-> <<>>]

ShowRecords == {ShowLost, ShowLostUndated, ShowLostBis, ShowOther}

\* Episode records {name, air_date}; air_date is empty when there is none
EpisodePi ==
    [name |-> <<"P", "i">>,
     air_date |-> <<"2", "0", "0", "5", "-", "0", "1">>]

EpisodeOther ==
    [name |-> <<"A", ":", "/", "B">>, air_date |-> <<>>]

EpisodeRecords == {EpisodePi, EpisodeOther}

\* the lists of at most MaxResults records of R, no id twice: what a search
\* can answer with
RECURSIVE ListsUpTo(_, _)
ListsUpTo(R, n) ==
    IF n = 0 THEN {<<>>}
    ELSE LET shorter == ListsUpTo(R, n - 1)
         IN  shorter \cup
             {Append(l, r) : l \in {x \in shorter : Len(x) = n - 1},
                             r \in R}

DistinctIds(l) == \A i, j \in 1..Len(l) : i # j => l[i].id # l[j].id

SearchAnswers(R) == {l \in ListsUpTo(R, MaxResults) : DistinctIds(l)}

\* a lookup by id answers with the record of that id, or with nothing
ByIdAnswers(R, id) == {<<>>} \cup {<<r>> : r \in {x \in R : x.id = id}}

\* the queries of the catalog client, all of one shape
Query(endpoint, id, query, year, season, episode) ==
    [endpoint |-> endpoint, id |-> id, query |-> query, year |-> year,
     season |-> season, episode |-> episode]

\* tmdb.movies.details(id)
GetMovieById(id) == Query("movies.details", id, <<>>, 0, 0, 0)

\* tmdb.search.movies({query, year})
SearchMovies(query, year) == Query("search.movies", 0, query, year, 0, 0)

\* tmdb.tvShows.details(id)
GetShowById(id) == Query("tvShows.details", id, <<>>, 0, 0, 0)

\* tmdb.search.tvShows({query, year})
SearchShows(query, year) == Query("search.tvShows", 0, query, year, 0, 0)

\* tmdb.tvEpisode.details({tvShowID, seasonNumber, episodeNumber})
GetEpisode(showId, season, episode) ==
    Query("tvEpisode.details", showId, <<>>, 0, season, episode)

\* the answers the catalog can give to a query
Answers(q) ==
    CASE q.endpoint = "movies.details" -> ByIdAnswers(MovieRecords, q.id)
      [] q.endpoint = "search.movies" -> SearchAnswers(MovieRecords)
      [] q.endpoint = "tvShows.details" -> ByIdAnswers(ShowRecords, q.id)
      [] q.endpoint = "search.tvShows" -> SearchAnswers(ShowRecords)
      [] q.endpoint = "tvEpisode.details" ->
            {<<>>} \cup {<<r>> : r \in EpisodeRecords}

\* ------------------------------------------------------------------------
\* parseMovieFilename
\* ------------------------------------------------------------------------

\* a parser that gives up: the item is skipped with this error
Fail(error) == [step |-> "fail", error |-> error]

\* a parser that awaits the answer to a catalog query; ctx is what it keeps
\* across the await
Await(query, ctx) == [step |-> "await", query |-> query, ctx |-> ctx]

\* a parser that returns a ParsedVideo {raw, folder, clean}
Parsed(video) == [step |-> "parsed", video |-> video]

\* `year` when none was found (undefined in the source)
NoYear == 0

\* the file extension: extensionMatch[0].slice(1)
Extension(raw) == From(raw, ExtensionPos(raw) + 1)

\* parseMovieFilename from `clean` up to its await
MovieQuery(filename, raw, clean, idMatch, yearMatch) ==
    LET yearStr == SelectSeq(SubSeq(clean, yearMatch.pos,
                                    yearMatch.pos + yearMatch.len - 1),
                             LAMBDA c : c \in Digits)
        query   == Trim(SubSeq(clean, 1, yearMatch.pos - 1))
    IN  IF ExtensionPos(raw) = 0 THEN Fail("NoExtension")
        ELSE IF idMatch.pos # 0
        THEN Await(GetMovieById(ParseInt(TagId(clean))),
                   [kind |-> "movie", raw |-> filename,
                    extension |-> Extension(raw),
                    rest |-> Trim(From(clean, idMatch.pos + idMatch.len)),
                    query |-> <<>>, yearStr |-> <<>>])
        ELSE IF yearMatch.pos = 0 THEN Fail("NoYearFound")
        ELSE Await(SearchMovies(query, ParseInt(yearStr)),
                   [kind |-> "movie", raw |-> filename,
                    extension |-> Extension(raw),
                    rest |-> Trim(From(clean, yearMatch.pos + yearMatch.len)),
                    query |-> query, yearStr |-> yearStr])

\* parseMovieFilename up to its await
MovieParse(filename) ==
    MovieQuery(filename, Decode(filename), cleanTitle(Decode(filename)),
               TagMatch(cleanTitle(Decode(filename))),
               MovieYearMatch(cleanTitle(Decode(filename))))

\* a faulty narrowing that takes the synopsis filter over all the results
NarrowMoviesOfOriginal(movies, query, yearStr) ==
    LET newMovies ==
            SelectSeq(movies, LAMBDA m :
                /\ simplify(m.title) = simplify(query)
                /\ StartsWith(m.release_date, yearStr))
        newMovies2 == SelectSeq(movies, LAMBDA m : m.overview # <<>>)
    IN  IF Len(movies) > 1
        THEN IF Len(newMovies2) = 1 THEN newMovies2
             ELSE IF Len(newMovies) = 1 THEN newMovies
             ELSE movies
        ELSE movies

\* a faulty narrowing that compares the titles only
NarrowMoviesByTitle(movies, query, yearStr) ==
    LET newMovies ==
            SelectSeq(movies, LAMBDA m : simplify(m.title) = simplify(query))
        newMovies2 == SelectSeq(newMovies, LAMBDA m : m.overview # <<>>)
    IN  IF Len(movies) > 1
        THEN IF Len(newMovies2) = 1 THEN newMovies2
             ELSE IF Len(newMovies) = 1 THEN newMovies
             ELSE movies
        ELSE movies

\* a faulty narrowing that puts a lone result through the title-and-year
\* filter too
NarrowMoviesLoneChecked(movies, query, yearStr) ==
    LET newMovies ==
            SelectSeq(movies, LAMBDA m :
                /\ simplify(m.title) = simplify(query)
                /\ StartsWith(m.release_date, yearStr))
        newMovies2 == SelectSeq(newMovies, LAMBDA m : m.overview # <<>>)
    IN  IF Len(movies) > 1
        THEN IF Len(newMovies2) = 1 THEN newMovies2
             ELSE IF Len(newMovies) = 1 THEN newMovies
             ELSE movies
        ELSE newMovies

\* the narrowing of parseMovieFilename: what `movies` holds after it
NarrowMovies(movies, query, yearStr) ==
    LET newMovies ==
            SelectSeq(movies, LAMBDA m :
                /\ simplify(m.title) = simplify(query)
                /\ StartsWith(m.release_date, yearStr))
        newMovies2 == SelectSeq(newMovies, LAMBDA m : m.overview # <<>>)
    IN  IF Len(movies) > 1
        THEN IF Len(newMovies2) = 1 THEN newMovies2
             ELSE IF Len(newMovies) = 1 THEN newMovies
             ELSE movies
        ELSE movies

\* "<title> (<year>) [tmdbid-<id>]"
TaggedName(title, year, id) ==
    title \o <<" ", "(">> \o year
          \o <<")", " ", "[", "t", "m", "d", "b", "i", "d", "-">>
          \o NumStr(id) \o <<"]">>

\* a faulty MovieVideo that puts the whole release date where the year goes
MovieVideoFullDate(movie, ctx) ==
    LET title == sanitizeFilename(
                    ReplaceAll(movie.title, <<" ", "-", " ">>, <<".", " ">>))
    IN  [raw    |-> ctx.raw,
         folder |-> TaggedName(title, movie.release_date, movie.id),
         clean  |-> TaggedName(title, movie.release_date, movie.id)
                      \o <<" ", "-", " ">> \o sanitizeFilename(ctx.rest)
                      \o <<".">> \o ctx.extension]

\* the ParsedVideo of one movie record
MovieVideo(movie, ctx) ==
    LET title == sanitizeFilename(
                    ReplaceAll(movie.title, <<" ", "-", " ">>, <<".", " ">>))
        year  == Before(movie.release_date, {"-"})
    IN  [raw    |-> ctx.raw,
         folder |-> TaggedName(title, year, movie.id),
         clean  |-> TaggedName(title, year, movie.id)
                      \o <<" ", "-", " ">> \o sanitizeFilename(ctx.rest)
                      \o <<".">> \o ctx.extension]

\* a faulty MovieResolve that takes the first candidate when several are
\* left
MovieResolveFirst(ctx, answer) ==
    LET movies == NarrowMovies(answer, ctx.query, ctx.yearStr)
    IN  IF Len(movies) >= 1 THEN Parsed(MovieVideo(movies[1], ctx))
        ELSE Fail("NotFound")

\* parseMovieFilename from the answer of the catalog on
MovieResolve(ctx, answer) ==
    LET movies == NarrowMovies(answer, ctx.query, ctx.yearStr)
    IN  IF Len(movies) = 1 THEN Parsed(MovieVideo(movies[1], ctx))
        ELSE IF Len(movies) > 1 THEN Fail("Ambiguous")
        ELSE Fail("NotFound")

\* ------------------------------------------------------------------------
\* parseEpisodeFilename
\* ------------------------------------------------------------------------

\* the id of the first entry of series.json whose key is the title, both
\* simplified, and that has a tmdbid; empty if there is none
\* a faulty SeriesId that stops at the first entry of the key, with or
\* without tmdbid
SeriesIdFirstKey(seriesData, title) ==
    LET hit == MinPos({i \in 1..Len(seriesData) :
                         simplify(seriesData[i].key) = simplify(title)})
    IN  IF hit = 0 THEN <<>> ELSE seriesData[hit].tmdbid

SeriesId(seriesData, title) ==
    LET hit == MinPos({i \in 1..Len(seriesData) :
                         /\ simplify(seriesData[i].key) = simplify(title)
                         /\ seriesData[i].tmdbid # <<>>})
    IN  IF hit = 0 THEN <<>> ELSE seriesData[hit].tmdbid

\* parseEpisodeFilename: the name without its id tag, and the id of the tag
Untagged(decoded, idMatch) ==
    IF idMatch.pos # 0
    THEN [fileId |-> TagId(decoded),
          raw    |-> SubSeq(decoded, 1, idMatch.pos - 1)
                       \o Trim(From(decoded, idMatch.pos + idMatch.len))]
    ELSE [fileId |-> <<>>, raw |-> decoded]

\* parseEpisodeFilename: the parts of the cleaned name around its
\* season/episode token
EpisodeSplit(clean, match) ==
    IF match.pos = 0 THEN [found |-> FALSE]
    ELSE [found   |-> TRUE,
          season  |-> TokenSeason(clean, match),
          episode |-> TokenEpisode(clean, match),
          title   |-> Trim(ReplaceChars(SubSeq(clean, 1, match.pos - 1),
                                        {".", "_"}, " ")),
          rest    |-> Trim(From(clean, match.pos + match.len))]

\* parseEpisodeFilename from the split name up to its first await
EpisodeQuery(filename, name, split, episodeTitle, yearMatch, seriesData) ==
    LET id    == IF name.fileId # <<>> THEN name.fileId
                 ELSE SeriesId(seriesData, split.title)
        rest  == IF episodeTitle # <<>>
                 THEN Trim(From(split.rest, Len(episodeTitle) + 1))
                 ELSE split.rest
        year  == IF yearMatch.pos # 0
                 THEN ParseInt(SubSeq(split.title, yearMatch.pos + 1,
                                      yearMatch.pos + 4))
                 ELSE NoYear
        title == IF yearMatch.pos # 0
                 THEN Trim(SubSeq(split.title, 1, yearMatch.pos - 1))
                 ELSE split.title
        ctx   == [kind |-> "episode", raw |-> filename,
                  extension |-> Extension(name.raw),
                  season |-> split.season, episode |-> split.episode,
                  title |-> title, rest |-> rest,
                  episodeTitle |-> episodeTitle, year |-> year,
                  fromFile |-> name.fileId # <<>>, byId |-> id # <<>>]
    IN  IF id # <<>> THEN Await(GetShowById(ParseInt(id)), ctx)
        ELSE Await(SearchShows(title, year), ctx)

\* parseEpisodeFilename from the untagged name up to its first await
EpisodeSearch(filename, name, split, seriesData) ==
    IF ExtensionPos(name.raw) = 0 THEN Fail("NoExtension")
    ELSE IF ~split.found THEN Fail("NoSeasonEpisode")
    ELSE EpisodeQuery(filename, name, split,
                      Trim(Before(split.rest, {"(", "["})),
                      BracketYearMatch(split.title), seriesData)

\* parseEpisodeFilename up to its first await
EpisodeParse(filename, seriesData) ==
    LET name  == Untagged(Decode(filename), TagMatch(Decode(filename)))
        clean == cleanTitle(name.raw)
    IN  EpisodeSearch(filename, name,
                      EpisodeSplit(clean, EpisodeTokenMatch(clean)),
                      seriesData)

\* the narrowing of parseEpisodeFilename: what response.results holds
\* after it
NarrowShows(results, title) ==
    LET newResults ==
            SelectSeq(results, LAMBDA s : simplify(s.name) = simplify(title))
    IN  IF Len(results) > 1 /\ Len(newResults) = 1 THEN newResults
        ELSE results

\* show.first_air_date?.split('-')[0]
FirstYear(show) == Before(show.first_air_date, {"-"})

\* a faulty ShowResolve that goes on with a show without first-air date
ShowResolveUndated(ctx, answer) ==
    LET results == IF ctx.byId THEN answer ELSE NarrowShows(answer, ctx.title)
    IN  IF Len(results) = 0 THEN Fail("NotFound")
        ELSE IF Len(results) > 1 THEN Fail("Ambiguous")
        ELSE Await(GetEpisode(results[1].id, ctx.season, ctx.episode),
                   [ctx EXCEPT !.kind = "episodeInfo"]
                     @@ [show |-> results[1]])

\* parseEpisodeFilename from the answer to the show query up to its second
\* await
ShowResolve(ctx, answer) ==
    LET results == IF ctx.byId THEN answer ELSE NarrowShows(answer, ctx.title)
    IN  IF Len(results) = 0 THEN Fail("NotFound")
        ELSE IF Len(results) > 1 THEN Fail("Ambiguous")
        ELSE IF FirstYear(results[1]) = <<>> THEN Fail("MissingAirDate")
        ELSE Await(GetEpisode(results[1].id, ctx.season, ctx.episode),
                   [ctx EXCEPT !.kind = "episodeInfo"]
                     @@ [show |-> results[1]])

\* the ParsedVideo of one show and one episode record
EpisodeVideo(ctx, episodeInfo, keepFileEpisode) ==
    LET show == ctx.show
        seasonStr   == PadStart2(ctx.season)
        episodeStr  == PadStart2(ctx.episode)
        episodeYear ==
            IF episodeInfo.air_date # <<>>
            THEN Before(episodeInfo.air_date, {"-"})
            ELSE IF ctx.year # NoYear THEN NumStr(ctx.year)
            ELSE FirstYear(show)
    IN  [raw    |-> ctx.raw,
         folder |-> TaggedName(sanitizeFilename(show.name), FirstYear(show),
                               show.id)
                      \o <<"/", "S", "e", "a", "s", "o", "n", " ">>
                      \o seasonStr,
         clean  |-> sanitizeFilename(show.name)
                      \o <<" ", "(">> \o episodeYear \o <<")", " ", "S">>
                      \o seasonStr \o <<"E">> \o episodeStr \o <<" ">>
                      \o sanitizeFilename(IF keepFileEpisode
                                          THEN ctx.episodeTitle
                                          ELSE episodeInfo.name)
                      \o sanitizeFilename(IF ctx.rest # <<>>
                                          THEN <<" ", "-", " ">> \o ctx.rest
                                          ELSE <<>>)
                      \o <<".">> \o ctx.extension]

\* a faulty TitlesDisagree that compares the titles as they are written
TitlesDisagreeAsWritten(ctx, episodeInfo) ==
    /\ ctx.episodeTitle # <<>>
    /\ episodeInfo.name # ctx.episodeTitle

\* whether parseEpisodeFilename warns that the two episode titles disagree
TitlesDisagree(ctx, episodeInfo) ==
    /\ ctx.episodeTitle # <<>>
    /\ simplify(episodeInfo.name) # simplify(ctx.episodeTitle)

\* parseEpisodeFilename from the answer to the episode query on
EpisodeResolve(ctx, answer, keepFileEpisode) ==
    IF Len(answer) = 0 THEN Fail("EpisodeNotFound")
    ELSE Parsed(EpisodeVideo(ctx, answer[1], keepFileEpisode))

\* ------------------------------------------------------------------------
\* The filesystem (node:fs)
\* ------------------------------------------------------------------------
\* A filesystem is a record {files, dirs}: files maps the path of each file
\* to its inode, dirs is the set of the directories.

\* values.incoming, values.moviesPath, values.seriesPath
IncomingPath == <<"i", "n">>
MoviesPath == <<"m", "v">>
SeriesPath == <<"t", "v">>

\* path.join of two parts that need no normalisation
Join(dir, name) == dir \o <<"/">> \o name

\* the directory a path is in
Parent(path) ==
    SubSeq(path, 1, MaxPos({i \in 1..Len(path) : path[i] = "/"}) - 1)

\* a path and the directories above it
Ancestors(path) ==
    {path} \cup
    {SubSeq(path, 1, i - 1) : i \in {k \in 2..Len(path) : path[k] = "/"}}

\* whether a path is in the tree below a directory
Under(path, dir) == StartsWith(path, dir \o <<"/">>)

\* what a filesystem call returns: the filesystem after it, and whether it
\* threw
Done(fs) == [fs |-> fs, threw |-> FALSE]
Threw(fs) == [fs |-> fs, threw |-> TRUE]

\* fs.existsSync
existsSync(fs, path) == path \in DOMAIN fs.files \/ path \in fs.dirs

\* fs.mkdirSync(path, {recursive: true})
mkdirSync(fs, path) ==
    IF \E p \in Ancestors(path) : p \in DOMAIN fs.files THEN Threw(fs)
    ELSE Done([fs EXCEPT !.dirs = @ \cup Ancestors(path)])

\* fs.linkSync(src, dst): dst becomes one more name of the inode of src
linkSync(fs, src, dst) ==
    IF \/ src \notin DOMAIN fs.files
       \/ existsSync(fs, dst)
       \/ Parent(dst) \notin fs.dirs
    THEN Threw(fs)
    ELSE Done([fs EXCEPT !.files = @ @@ (dst :> fs.files[src])])

\* fs.renameSync(src, dst): dst is replaced when it exists; nothing happens
\* when src and dst are names of the same inode
renameSync(fs, src, dst) ==
    IF \/ src \notin DOMAIN fs.files
       \/ dst \in fs.dirs
       \/ Parent(dst) \notin fs.dirs
    THEN Threw(fs)
    ELSE IF dst \in DOMAIN fs.files /\ fs.files[dst] = fs.files[src]
    THEN Done(fs)
    ELSE Done([fs EXCEPT !.files =
                 [p \in (DOMAIN @ \ {src}) \cup {dst} |->
                    IF p = dst THEN @[src] ELSE @[p]]])

\* fs.readdirSync(values.incoming): the names of the directory, in the
\* order the directory lists them
readdirSync(fs, listing) ==
    SelectSeq(listing, LAMBDA n : Join(IncomingPath, n) \in DOMAIN fs.files)

\* fs.statSync(path).nlink: the names of the inode in the three trees and
\* the ones it has elsewhere
LinkCount(fs, extLinks, ino) ==
    Cardinality({p \in DOMAIN fs.files : fs.files[p] = ino})
      + (IF ino \in extLinks THEN 1 ELSE 0)

\* ------------------------------------------------------------------------
\* Placement engine
\* ------------------------------------------------------------------------

EXTENSIONS_DEFAULT ==
    {<<"m", "k", "v">>, <<"a", "v", "i">>, <<"m", "p", "4">>,
     <<"m", "o", "v">>}

\* file.split('.').pop()?.toLowerCase()
LastDotPart(file) ==
    ToLower(From(file, MaxPos({i \in 1..Len(file) : file[i] = "."}) + 1))

getVideosInDirectory(fs, listing, extensions) ==
    SelectSeq(readdirSync(fs, listing),
              LAMBDA file : LastDotPart(file) \in extensions)

\* a faulty isFileAlreadyLinked that scans the movies tree only
isLinkedIntoMovies(fs, extLinks, file) ==
    LET ino == fs.files[Join(IncomingPath, file)]
    IN  IF LinkCount(fs, extLinks, ino) <= 1 THEN FALSE
        ELSE \E p \in DOMAIN fs.files :
                Under(p, MoviesPath) /\ fs.files[p] = ino

\* a faulty isFileAlreadyLinked that takes two names for none
isFileAlreadyLinkedTwice(fs, extLinks, file) ==
    LET ino == fs.files[Join(IncomingPath, file)]
    IN  IF LinkCount(fs, extLinks, ino) <= 2 THEN FALSE
        ELSE \E p \in DOMAIN fs.files :
                /\ Under(p, MoviesPath) \/ Under(p, SeriesPath)
                /\ fs.files[p] = ino

isFileAlreadyLinked(fs, extLinks, file) ==
    LET ino == fs.files[Join(IncomingPath, file)]
    IN  IF LinkCount(fs, extLinks, ino) <= 1 THEN FALSE
        ELSE \E p \in DOMAIN fs.files :
                /\ Under(p, MoviesPath) \/ Under(p, SeriesPath)
                /\ fs.files[p] = ino

\* one filesystem call of the placement of an item, with the line logged
\* before it
FsCall(line, op, src, dst) ==
    [line |-> line, op |-> op, src |-> src, dst |-> dst]

\* the calls of moveVideoToFolder
VideoCalls(video, videoFolder, link) ==
    << FsCall("Create folder", "mkdir", <<>>, videoFolder),
       FsCall(IF link THEN "Link file to" ELSE "Move file to",
              IF link THEN "link" ELSE "rename",
              Join(IncomingPath, video.raw),
              Join(videoFolder, video.clean)) >>

subtitleExtensions ==
    {<<"s", "r", "t">>, <<"s", "u", "b">>, <<"a", "s", "s">>,
     <<"s", "s", "a">>, <<"v", "t", "t">>, <<"i", "d", "x">>,
     <<"s", "m", "i">>}

Letters == LowerCase \cup UpperCase

\* /^[a-z]{2,3}([_-][a-z]{2,3})?$/i : the length of the language code, 0 if
\* the text is no language part
LanguageLen(part) ==
    LET n == RunEnd(part, 1, Letters) - 1
        m == Len(part) - n - 1
    IN  IF n \notin {2, 3} THEN 0
        ELSE IF n = Len(part) THEN n
        ELSE IF /\ part[n + 1] \in {"_", "-"}
                /\ m \in {2, 3}
                /\ RunEnd(part, n + 2, Letters) = Len(part) + 1
        THEN n ELSE 0

\* suffix.match(/^(\.([a-z]{2,3})([_-][a-z]{2,3})?)?\.(\w+)$/i): whether it
\* matches, its language code (group 2) and its extension (group 4)
SubtitleMatch(suffix) ==
    LET dots == {i \in 1..Len(suffix) : suffix[i] = "."}
        last == MaxPos(dots)
        ext  == From(suffix, last + 1)
        lang == SubSeq(suffix, 2, last - 1)
        extOk == ext # <<>> /\ \A i \in 1..Len(ext) : ext[i] \in WordChars
    IN  IF Ch(suffix, 1) # "." \/ ~extOk THEN [ok |-> FALSE]
        ELSE IF dots = {1}
        THEN [ok |-> TRUE, languageCode |-> <<>>, extension |-> ext]
        ELSE IF dots = {1, last} /\ LanguageLen(lang) # 0
        THEN [ok |-> TRUE,
              languageCode |-> SubSeq(lang, 1, LanguageLen(lang)),
              extension |-> ext]
        ELSE [ok |-> FALSE]

\* whether moveSubtitles takes a file of the incoming directory as a
\* subtitle of the video
IsSubtitleOf(file, baseRawName) ==
    /\ StartsWith(file, baseRawName)
    /\ SubtitleMatch(From(file, Len(baseRawName) + 1)).ok
    /\ ToLower(SubtitleMatch(From(file, Len(baseRawName) + 1)).extension)
         \in subtitleExtensions

\* the destinationName moveSubtitles gives a subtitle
SubtitleName(file, baseRawName, baseCleanName) ==
    LET m == SubtitleMatch(From(file, Len(baseRawName) + 1))
    IN  IF m.languageCode # <<>>
        THEN baseCleanName \o <<".">> \o m.languageCode
               \o <<".">> \o ToLower(m.extension)
        ELSE baseCleanName \o <<".">> \o ToLower(m.extension)

\* the calls of moveSubtitles, in the order of the directory listing
SubtitleCalls(video, videoFolder, link, incomingFiles) ==
    LET baseRawName   == StripExtension(video.raw)
        baseCleanName == StripExtension(video.clean)
        subs == SelectSeq(incomingFiles,
                          LAMBDA f : IsSubtitleOf(f, baseRawName))
    IN  [i \in 1..Len(subs) |->
           FsCall(IF link THEN "Link subtitle to" ELSE "Move subtitle to",
                  IF link THEN "link" ELSE "rename",
                  Join(IncomingPath, subs[i]),
                  Join(videoFolder,
                       SubtitleName(subs[i], baseRawName, baseCleanName)))]

\* the meta suffixes of processVideoFile
meta ==
    << <<".", "n", "f", "o">>,
       <<".", "t", "r", "i", "c", "k", "p", "l", "a", "y">>,
       <<"-", "b", "a", "c", "k", "d", "r", "o", "p", ".", "j", "p", "g">>,
       <<"-", "b", "a", "c", "k", "d", "r", "o", "p", ".", "w", "e", "b", "p">>,
       <<"-", "p", "o", "s", "t", "e", "r", ".", "j", "p", "g">>,
       <<"-", "p", "o", "s", "t", "e", "r", ".", "w", "e", "b", "p">>,
       <<"-", "l", "o", "g", "o", ".", "j", "p", "g">>,
       <<"-", "l", "o", "g", "o", ".", "p", "n", "g">>,
       <<"-", "l", "o", "g", "o", ".", "w", "e", "b", "p">>,
       <<"-", "l", "a", "n", "d", "s", "c", "a", "p", "e", ".", "j", "p", "g">>,
       <<"-", "l", "a", "n", "d", "s", "c", "a", "p", "e", ".", "w", "e", "b", "p">> >>

\* the destinationName processVideoFile gives a meta file
MetaName(suffix, baseCleanName) ==
    sanitizeFilename(
        IF suffix = <<".", "n", "f", "o">>
        THEN <<"m", "o", "v", "i", "e", ".", "n", "f", "o">>
        ELSE IF suffix = <<".", "t", "r", "i", "c", "k", "p", "l", "a", "y">>
        THEN baseCleanName \o suffix
        ELSE Tail(suffix))

\* the calls of the meta loop of processVideoFile: one renameSync for each
\* meta file that exists
MetaCalls(video, videoFolder, fs) ==
    LET baseRawName   == StripExtension(video.raw)
        baseCleanName == StripExtension(video.clean)
        found == SelectSeq(meta, LAMBDA suffix :
                    existsSync(fs, Join(IncomingPath, baseRawName \o suffix)))
    IN  [i \in 1..Len(found) |->
           FsCall("Move meta to", "rename",
                  Join(IncomingPath, baseRawName \o found[i]),
                  Join(videoFolder, MetaName(found[i], baseCleanName)))]

\* one filesystem call carried out
Perform(fs, call) ==
    CASE call.op = "mkdir"  -> mkdirSync(fs, call.dst)
      [] call.op = "link"   -> linkSync(fs, call.src, call.dst)
      [] call.op = "rename" -> renameSync(fs, call.src, call.dst)

\* a faulty Attempt, without the test of values.dryRun
AttemptWet(fs, call, dryRun, fails) ==
    IF fails THEN Threw(fs) ELSE Perform(fs, call)

\* one call of a placement: `if (!values.dryRun) fs.xxxSync(...)`; `fails`
\* says that the call throws for a reason of its own
Attempt(fs, call, dryRun, fails) ==
    IF dryRun THEN Done(fs)
    ELSE IF fails THEN Threw(fs)
    ELSE Perform(fs, call)

\* the state of a placement: the filesystem, the calls logged, the calls
\* carried out, and whether a call threw
\* (each call logs its line first; in a dry run it does nothing more; the
\* call number failAt fails for a reason of its own: permission, disk full,
\* cross-device link)
RECURSIVE RunCalls(_, _, _, _)
RunCalls(st, calls, dryRun, failAt) ==
    IF calls = <<>> \/ st.threw THEN st
    ELSE LET call == Head(calls)
             n    == Len(st.logged) + 1
             r    == Attempt(st.fs, call, dryRun, n = failAt)
         IN  RunCalls([fs |-> r.fs,
                       logged |-> Append(st.logged, call),
                       done |-> IF dryRun \/ r.threw THEN st.done
                                ELSE Append(st.done, call),
                       threw |-> r.threw],
                      Tail(calls), dryRun, failAt)

\* processEpisodeFile: moveVideoToFolder, then moveSubtitles
processEpisodeFile(fs, video, cfg, listing, failAt) ==
    LET videoPath == Join(SeriesPath, video.folder)
        st0 == [fs |-> fs, logged |-> <<>>, done |-> <<>>, threw |-> FALSE]
        st1 == RunCalls(st0, VideoCalls(video, videoPath, cfg.link),
                        cfg.dryRun, failAt)
    IN  RunCalls(st1,
                 SubtitleCalls(video, videoPath, cfg.link,
                               readdirSync(st1.fs, listing)),
                 cfg.dryRun, failAt)

\* processVideoFile: moveVideoToFolder, moveSubtitles, then the meta files
processVideoFile(fs, video, cfg, listing, failAt) ==
    LET videoFolder == Join(MoviesPath, video.folder)
        st0 == [fs |-> fs, logged |-> <<>>, done |-> <<>>, threw |-> FALSE]
        st1 == RunCalls(st0, VideoCalls(video, videoFolder, cfg.link),
                        cfg.dryRun, failAt)
        st2 == RunCalls(st1,
                        SubtitleCalls(video, videoFolder, cfg.link,
                                      readdirSync(st1.fs, listing)),
                        cfg.dryRun, failAt)
    IN  RunCalls(st2, MetaCalls(video, videoFolder, st2.fs),
                 cfg.dryRun, failAt)

\* ------------------------------------------------------------------------
\* The incoming directories of the model
\* ------------------------------------------------------------------------

\* "Dune.avi": a movie name without a year
FileDune ==
    <<"D", "u", "n", "e", ".", "a", "v", "i">>

\* "Up (2009).mkv": a movie to search for, with a subtitle and an .nfo
FileUp ==
    <<"U", "p", " ", "(", "2", "0", "0", "9", ")", ".", "m", "k", "v">>

\* "Up (2009).en.srt"
FileUpSrt ==
    <<"U", "p", " ", "(", "2", "0", "0", "9", ")", ".", "e", "n", ".",
      "s", "r", "t">>

\* "Up (2009).nfo"
FileUpNfo ==
    <<"U", "p", " ", "(", "2", "0", "0", "9", ")", ".", "n", "f", "o">>

\* "Up [tmdbid-2] h:d.mkv": a movie with an id tag, and in one listing with
\* two subtitles of one language
FileTagged ==
    <<"U", "p", " ", "[", "t", "m", "d", "b", "i", "d", "-", "2", "]", " ",
      "h", ":", "d", ".", "m", "k", "v">>

\* "Up [tmdbid-2] h:d.pt-BR.srt"
FileTaggedPtBr ==
    <<"U", "p", " ", "[", "t", "m", "d", "b", "i", "d", "-", "2", "]", " ",
      "h", ":", "d", ".", "p", "t", "-", "B", "R", ".", "s", "r", "t">>

\* "Up [tmdbid-2] h:d.pt-PT.srt"
FileTaggedPtPt ==
    <<"U", "p", " ", "[", "t", "m", "d", "b", "i", "d", "-", "2", "]", " ",
      "h", ":", "d", ".", "p", "t", "-", "P", "T", ".", "s", "r", "t">>

\* "Lost S01E02 Pi.mkv": an episode to search for, with a subtitle
FileEpisode ==
    <<"L", "o", "s", "t", " ", "S", "0", "1", "E", "0", "2", " ", "P", "i",
      ".", "m", "k", "v">>

\* "Lost S01E02 Pi.srt"
FileEpisodeSrt ==
    <<"L", "o", "s", "t", " ", "S", "0", "1", "E", "0", "2", " ", "P", "i",
      ".", "s", "r", "t">>

\* "Lost (2010) [TMDBID-7] 1x102 a:b (c:d).mp4": an episode with an id tag,
\* a year, a three-digit episode number, a title and a remainder
FileEpisodeTagged ==
    <<"L", "o", "s", "t", " ", "(", "2", "0", "1", "0", ")", " ",
      "[", "T", "M", "D", "B", "I", "D", "-", "7", "]", " ",
      "1", "x", "1", "0", "2", " ", "a", ":", "b", " ", "(", "c", ":", "d",
      ")", ".", "m", "p", "4">>

\* "Up [TMDBID-2] h:d.mkv": the movie of "Up [tmdbid-2] h:d.mkv" under
\* another name
FileTaggedAgain ==
    <<"U", "p", " ", "[", "T", "M", "D", "B", "I", "D", "-", "2", "]", " ",
      "h", ":", "d", ".", "m", "k", "v">>

\* "Lost S01E02.mkv": an episode without a title
FileEpisodeBare ==
    <<"L", "o", "s", "t", " ", "S", "0", "1", "E", "0", "2", ".", "m", "k",
      "v">>

\* "Lost S00E00 Pi.mkv": season 0, episode 0
FileEpisodeZero ==
    <<"L", "o", "s", "t", " ", "S", "0", "0", "E", "0", "0", " ", "P", "i",
      ".", "m", "k", "v">>

\* the listings of the incoming directory the model starts from
Listings ==
    { <<FileDune, FileUp, FileUpSrt, FileUpNfo>>,
      <<FileEpisodeBare>>,
      <<FileTagged, FileTaggedAgain>>,
      <<FileEpisodeZero>>,
      <<FileTagged, FileEpisode, FileEpisodeSrt>>,
      <<FileEpisodeTagged, FileTagged, FileTaggedPtBr, FileTaggedPtPt>>,
      <<FileUpNfo>> }

\* the contents of series.json the model starts from
SeriesTables ==
    { <<>>, <<[key |-> <<"l", "o", "s", "t">>, tmdbid |-> <<"7">>]>> }

\* ------------------------------------------------------------------------
\* State
\* ------------------------------------------------------------------------

VARIABLES
    cfg,         \* process.env and `values`: token, moviesExists,
                 \* seriesExists, link, dryRun, keepFileEpisode
    seriesData,  \* the entries of series.json
    listing,     \* the names of the incoming directory, in listing order
    extLinks,    \* the inodes that have a name outside the three trees
    fs,          \* the filesystem: {files, dirs}
    memo,        \* the answers the catalog has given, by query
    runNo,       \* the number of this run of the tool
    pc,          \* "boot", "main", "loop" or "exited"
    exitCode,    \* the exit code of the process, -1 while it runs
    videoFiles,  \* the enumerated items
    idx,         \* the position in videoFiles of the next item to begin
    awaiting,    \* the item whose parser main awaits, 0 if none
    inflight,    \* the catalog queries not answered yet
    rejected,    \* a promise was rejected and nothing handles it
    outcome,     \* what became of each item
    log,         \* the lines logged by this run
    prevLog,     \* the lines logged by the run before
    prevPlaced,  \* the names of the items the run before placed
    calls,       \* the catalog queries issued by this run
    fsDone       \* the filesystem calls carried out by this run

vars == <<cfg, seriesData, listing, extLinks, fs, memo, runNo, pc, exitCode,
          videoFiles, idx, awaiting, inflight, rejected, outcome, log,
          prevLog, prevPlaced, calls, fsDone>>

\* what a run never changes
env == <<cfg, seriesData, listing, extLinks>>

\* a logged line of an item (item 0: the run itself)
Line(item, line, arg) == [item |-> item, line |-> line, arg |-> arg]

Pending == [status |-> "Pending", reason |-> ""]
Placed  == [status |-> "Placed", reason |-> ""]
Failed  == [status |-> "Failed", reason |-> "TransferFailure"]
Skipped(reason) == [status |-> "Skipped", reason |-> reason]

\* the files of the incoming directory before the first run: one inode each
InitialFs(names, c) ==
    [files |-> [p \in {Join(IncomingPath, names[i]) : i \in 1..Len(names)}
                  |-> CHOOSE i \in 1..Len(names) :
                         p = Join(IncomingPath, names[i])],
     dirs  |-> {IncomingPath}
                 \cup (IF c.moviesExists THEN {MoviesPath} ELSE {})
                 \cup (IF c.seriesExists THEN {SeriesPath} ELSE {})]

Configs ==
    [token : BOOLEAN, moviesExists : BOOLEAN, seriesExists : BOOLEAN,
     link : BOOLEAN, dryRun : BOOLEAN, keepFileEpisode : BOOLEAN]

Init ==
    /\ cfg \in Configs
    /\ seriesData \in SeriesTables
    /\ listing \in Listings
    /\ extLinks \in IF cfg.link THEN {{}, {1}} ELSE {{}}
    /\ fs = InitialFs(listing, cfg)
    /\ memo = <<>>
    /\ runNo = 1
    /\ pc = "boot"
    /\ exitCode = -1
    /\ videoFiles = <<>>
    /\ idx = 0
    /\ awaiting = 0
    /\ inflight = {}
    /\ rejected = FALSE
    /\ outcome = <<>>
    /\ log = <<>>
    /\ prevLog = <<>>
    /\ prevPlaced = {}
    /\ calls = <<>>
    /\ fsDone = <<>>

\* ------------------------------------------------------------------------
\* Start of the process
\* ------------------------------------------------------------------------

\* process.exit(code)
Exit(code, lines) ==
    /\ pc' = "exited"
    /\ exitCode' = code
    /\ log' = log \o lines
    /\ inflight' = {}
    /\ awaiting' = 0

\* a faulty Boot, without the check of TMDB_API_ACCESS_TOKEN
BootUnchecked ==
    /\ pc = "boot"
    /\ pc' = "main"
    /\ UNCHANGED <<env, fs, memo, runNo, exitCode, videoFiles, idx, awaiting,
                   inflight, rejected, outcome, log,
                   prevLog, prevPlaced, calls, fsDone>>

\* the top of the module: the check of TMDB_API_ACCESS_TOKEN
Boot ==
    /\ pc = "boot"
    /\ IF ~cfg.token
       THEN /\ Exit(1, <<Line(0, "Error: TMDB_API_ACCESS_TOKEN is not set",
                              <<>>)>>)
            /\ UNCHANGED <<env, fs, memo, runNo, videoFiles, idx, rejected,
                           outcome, prevLog, prevPlaced, calls, fsDone>>
       ELSE /\ pc' = "main"
            /\ UNCHANGED <<env, fs, memo, runNo, exitCode, videoFiles, idx,
                           awaiting, inflight, rejected, outcome, log,
                           prevLog, prevPlaced, calls, fsDone>>

\* main up to its loop: the destination paths, the enumeration, the filter
\* of link mode
MainStart ==
    /\ pc = "main"
    /\ LET found == getVideosInDirectory(fs, listing, EXTENSIONS_DEFAULT)
           files == IF cfg.link
                    THEN SelectSeq(found, LAMBDA file :
                            ~isFileAlreadyLinked(fs, extLinks, file))
                    ELSE found
       IN  IF ~existsSync(fs, MoviesPath)
           THEN /\ Exit(1, <<Line(0, "Movies path does not exist",
                                  MoviesPath)>>)
                /\ UNCHANGED <<videoFiles, idx, outcome>>
           ELSE IF ~existsSync(fs, SeriesPath)
           THEN /\ Exit(1, <<Line(0, "Series path does not exist",
                                  SeriesPath)>>)
                /\ UNCHANGED <<videoFiles, idx, outcome>>
           ELSE IF files = <<>>
           THEN /\ Exit(0, <<Line(0, "No video files found", IncomingPath)>>)
                /\ UNCHANGED <<videoFiles, idx, outcome>>
           ELSE /\ pc' = "loop"
                /\ videoFiles' = files
                /\ idx' = 1
                /\ outcome' = [i \in 1..Len(files) |-> Pending]
                /\ UNCHANGED <<exitCode, log, inflight, awaiting>>
    /\ UNCHANGED <<env, fs, memo, runNo, rejected,
                   prevLog, prevPlaced, calls, fsDone>>

\* ------------------------------------------------------------------------
\* The loop of main
\* ------------------------------------------------------------------------

\* a faulty loop that calls the parser without `await`
CanBeginAlways(aw) == TRUE

\* `for (const file of videoFiles) { ... await parse...(file) ... }`: the
\* loop goes on to the next item when the parser it awaits has settled
CanBegin(aw) == aw = 0

\* the lines of an item that is skipped
SkipLines(item, error) ==
    <<Line(item, "Error", error), Line(item, "Skipping file", <<>>),
      Line(item, "", <<>>)>>

\* the line a parser logs before a query
QueryLine(item, q) ==
    Line(item, q.endpoint, IF q.query # <<>> THEN q.query ELSE NumStr(q.id))

\* the candidates a parser lists when several are left: one line with
\* their ids
CandidateLines(item, candidates) ==
    IF Len(candidates) > 1
    THEN <<Line(item, "Multiple titles found",
                [i \in 1..Len(candidates) |-> candidates[i].id])>>
    ELSE <<>>

\* a faulty SkipItem of a program that makes the movies folder before it
\* knows whether the item resolves
SkipItemMakingFolder(item, error, before) ==
    /\ outcome' = [outcome EXCEPT ![item] = Skipped(error)]
    /\ log' = log \o before \o SkipLines(item, error)
    /\ fs' = [fs EXCEPT !.dirs = @ \cup {Join(MoviesPath, <<"x">>)}]
    /\ UNCHANGED <<fsDone, rejected, pc, exitCode>>

\* the parser of an item returned null: main logs and goes on
SkipItem(item, error, before) ==
    /\ outcome' = [outcome EXCEPT ![item] = Skipped(error)]
    /\ log' = log \o before \o SkipLines(item, error)
    /\ UNCHANGED <<fs, fsDone, rejected, pc, exitCode>>

\* the parser of an item awaits a query
AwaitQuery(item, parser, before) ==
    /\ inflight' = (inflight \ {r \in inflight : r.item = item})
                     \cup {[item |-> item, query |-> parser.query,
                            ctx |-> parser.ctx]}
    /\ calls' = Append(calls, [item |-> item, query |-> parser.query])
    /\ log' = log \o before \o <<QueryLine(item, parser.query)>>
    /\ UNCHANGED <<fs, fsDone, rejected, outcome, pc, exitCode>>

\* processVideoFile for a movie, processEpisodeFile for an episode
Place(st, video, isMovie, c, names, failAt) ==
    IF isMovie THEN processVideoFile(st, video, c, names, failAt)
    ELSE processEpisodeFile(st, video, c, names, failAt)

\* the parser of an item returned a ParsedVideo: main calls processVideoFile
\* or processEpisodeFile, does not await it, and goes on; a call that throws
\* rejects the promise nothing awaits
PlaceItem(item, video, isMovie, before) ==
    \E plan \in {Place(fs, video, isMovie, cfg, listing, 0)} :
    \E failAt \in 0..(IF cfg.dryRun THEN 0 ELSE Len(plan.logged)) :
    \E st \in {Place(fs, video, isMovie, cfg, listing, failAt)} :
        /\ fs' = st.fs
        /\ fsDone' = fsDone \o
              [i \in 1..Len(st.done) |->
                 [item |-> item, op |-> st.done[i].op,
                  src |-> st.done[i].src, dst |-> st.done[i].dst]]
        /\ log' = log \o before \o
              [i \in 1..Len(st.logged) |->
                 Line(item, st.logged[i].line, st.logged[i].dst)]
              \o <<Line(item, "", <<>>)>>
        /\ outcome' = [outcome EXCEPT
                         ![item] = IF st.threw THEN Failed ELSE Placed]
        /\ rejected' = (rejected \/ st.threw)
        /\ UNCHANGED <<pc, exitCode>>

\* one iteration of the loop up to the first await of the parser
BeginItem ==
    /\ pc = "loop"
    /\ idx <= Len(videoFiles)
    /\ CanBegin(awaiting)
    /\ \E parser \in {IF isEpisodeFile(videoFiles[idx])
                      THEN EpisodeParse(videoFiles[idx], seriesData)
                      ELSE MovieParse(videoFiles[idx])} :
         IF parser.step = "fail"
         THEN /\ SkipItem(idx, parser.error,
                          <<Line(idx, "Processing", videoFiles[idx])>>)
              /\ UNCHANGED <<inflight, awaiting, calls>>
         ELSE /\ AwaitQuery(idx, parser,
                            <<Line(idx, "Processing", videoFiles[idx])>>)
              /\ awaiting' = idx
    /\ idx' = idx + 1
    /\ UNCHANGED <<env, memo, runNo, videoFiles, prevLog, prevPlaced>>

\* the answer of the catalog to a query: the one it gave before, if any
AnswersNow(q) == IF q \in DOMAIN memo THEN {memo[q]} ELSE Answers(q)

\* the parser of item r.item goes on from the answer to its query
Continue(r, parser, isMovie, before) ==
    /\ CASE parser.step = "fail" ->
              /\ SkipItem(r.item, parser.error, before)
              /\ inflight' = inflight \ {r}
              /\ awaiting' = IF awaiting = r.item THEN 0 ELSE awaiting
              /\ UNCHANGED calls
         [] parser.step = "await" ->
              /\ AwaitQuery(r.item, parser, before)
              /\ UNCHANGED awaiting
         [] parser.step = "parsed" ->
              /\ PlaceItem(r.item, parser.video, isMovie, before)
              /\ inflight' = inflight \ {r}
              /\ awaiting' = IF awaiting = r.item THEN 0 ELSE awaiting
              /\ UNCHANGED calls
    /\ UNCHANGED <<env, runNo, videoFiles, idx, prevLog, prevPlaced>>


\* the catalog answers the movie query of an item: parseMovieFilename goes
\* on to its end, and main to the end of the iteration
MovieReply ==
    /\ pc = "loop"
    /\ ~rejected
    /\ \E r \in inflight :
         /\ r.ctx.kind = "movie"
         /\ \E answer \in AnswersNow(r.query) :
              /\ memo' = (r.query :> answer) @@ memo
              /\ Continue(r, MovieResolve(r.ctx, answer), TRUE,
                          CandidateLines(r.item,
                              NarrowMovies(answer, r.ctx.query,
                                           r.ctx.yearStr)))

\* the catalog answers the show query of an item: parseEpisodeFilename goes
\* on to its second await, or returns null
ShowReply ==
    /\ pc = "loop"
    /\ ~rejected
    /\ \E r \in inflight :
         /\ r.ctx.kind = "episode"
         /\ \E answer \in AnswersNow(r.query) :
              /\ memo' = (r.query :> answer) @@ memo
              /\ Continue(r, ShowResolve(r.ctx, answer), FALSE,
                          IF r.ctx.byId THEN <<>>
                          ELSE CandidateLines(r.item,
                                   NarrowShows(answer, r.ctx.title)))

\* the line of the warning of parseEpisodeFilename
WarningLines(r, answer) ==
    IF answer # <<>> /\ TitlesDisagree(r.ctx, answer[1])
    THEN <<Line(r.item,
                IF cfg.keepFileEpisode
                THEN "Warning: titles differ, using title from file"
                ELSE "Warning: titles differ, using title from TMDB",
                answer[1].name)>>
    ELSE <<>>

\* the catalog answers the episode query of an item: parseEpisodeFilename
\* goes on to its end, and main to the end of the iteration
EpisodeReply ==
    /\ pc = "loop"
    /\ ~rejected
    /\ \E r \in inflight :
         /\ r.ctx.kind = "episodeInfo"
         /\ \E answer \in AnswersNow(r.query) :
              /\ memo' = (r.query :> answer) @@ memo
              /\ Continue(r, EpisodeResolve(r.ctx, answer,
                                            cfg.keepFileEpisode),
                          FALSE, WarningLines(r, answer))

\* The promise of processVideoFile or processEpisodeFile was rejected and
\* main neither awaits nor catches it.  The runtime deals with it once the
\* synchronous code and the microtasks have run: when main is suspended on
\* a catalog query, or at the end of the loop.  It then either ends the
\* process with code 1 or only warns, depending on the runtime and its
\* unhandled-rejections mode.
UnhandledRejection ==
    /\ pc = "loop"
    /\ rejected
    /\ inflight # {} \/ idx > Len(videoFiles)
    /\ \/ /\ Exit(1, <<Line(0, "Unhandled rejection: exit", <<>>)>>)
          /\ UNCHANGED rejected
       \/ /\ rejected' = FALSE
          /\ log' = Append(log, Line(0, "Unhandled rejection: warning", <<>>))
          /\ UNCHANGED <<pc, exitCode, inflight, awaiting>>
    /\ UNCHANGED <<env, fs, memo, runNo, videoFiles, idx, outcome,
                   prevLog, prevPlaced, calls, fsDone>>

\* main returns and nothing is left to wait for: the process ends
Finish ==
    /\ pc = "loop"
    /\ idx > Len(videoFiles)
    /\ awaiting = 0
    /\ inflight = {}
    /\ ~rejected
    /\ Exit(0, <<>>)
    /\ UNCHANGED <<env, fs, memo, runNo, videoFiles, idx, rejected, outcome,
                   prevLog, prevPlaced, calls, fsDone>>

\* the tool is started again with the same arguments, on the filesystem the
\* run before left, against the same catalog
Rerun ==
    /\ pc = "exited"
    /\ runNo < MaxRuns
    /\ runNo' = runNo + 1
    /\ pc' = "boot"
    /\ exitCode' = -1
    /\ videoFiles' = <<>>
    /\ idx' = 0
    /\ awaiting' = 0
    /\ inflight' = {}
    /\ rejected' = FALSE
    /\ outcome' = <<>>
    /\ prevLog' = log
    /\ prevPlaced' = {videoFiles[i] : i \in {j \in DOMAIN outcome :
                                              outcome[j] = Placed}}
    /\ log' = <<>>
    /\ calls' = <<>>
    /\ fsDone' = <<>>
    /\ UNCHANGED <<env, fs, memo>>

\* what becomes of the item whose placement the end of the process cut short
Aborted == [status |-> "Aborted", reason |-> "Killed"]

\* The process is ended from outside (a signal, a power cut) during the
\* placement of an item, before filesystem call number k of it: the calls
\* before k were carried out, nothing else happens in this run.  A dry run
\* has no filesystem call to be stopped between.
Abort ==
    /\ pc = "loop"
    /\ ~rejected
    /\ ~cfg.dryRun
    /\ \E r \in inflight :
       \E answer \in AnswersNow(r.query) :
       \E parser \in {CASE r.ctx.kind = "movie" -> MovieResolve(r.ctx, answer)
                       [] r.ctx.kind = "episodeInfo" ->
                             EpisodeResolve(r.ctx, answer, cfg.keepFileEpisode)
                       [] OTHER -> Fail("")} :
         /\ parser.step = "parsed"
         /\ \E plan \in {Place(fs, parser.video, r.ctx.kind = "movie", cfg,
                                listing, 0)} :
            \E k \in 1..Len(plan.logged) :
            \E st \in {Place(fs, parser.video, r.ctx.kind = "movie", cfg,
                              listing, k)} :
              /\ Len(st.done) = k - 1
              /\ memo' = (r.query :> answer) @@ memo
              /\ fs' = st.fs
              /\ fsDone' = fsDone \o
                    [i \in 1..Len(st.done) |->
                       [item |-> r.item, op |-> st.done[i].op,
                        src |-> st.done[i].src, dst |-> st.done[i].dst]]
              /\ log' = log
                    \o (IF r.ctx.kind = "episodeInfo"
                        THEN WarningLines(r, answer) ELSE <<>>)
                    \o [i \in 1..Len(st.done) |->
                          Line(r.item, st.logged[i].line, st.logged[i].dst)]
                    \o <<Line(0, "Killed", <<>>)>>
              /\ outcome' = [outcome EXCEPT ![r.item] = Aborted]
    /\ pc' = "exited"
    /\ exitCode' = 137
    /\ inflight' = {}
    /\ awaiting' = 0
    /\ UNCHANGED <<env, runNo, videoFiles, idx, rejected,
                   prevLog, prevPlaced, calls>>

\* one step of a run
Step ==
    \/ Boot
    \/ MainStart
    \/ BeginItem
    \/ MovieReply
    \/ ShowReply
    \/ EpisodeReply
    \/ UnhandledRejection
    \/ Finish

Next == Step \/ Rerun \/ Abort

Spec == Init /\ [][Next]_vars

\* the process runs on and the catalog answers every query
FairSpec == Spec /\ WF_vars(Step)

\* ------------------------------------------------------------------------
\* The parsers on a directory of one file
\* ------------------------------------------------------------------------

\* file names around a season/episode token, or around what looks like one
TokenNames ==
    {p \o t \o s \o <<".", "m", "k", "v">> :
        p \in {<<>>, <<"A">>, <<"A", " ">>, <<"A", ".">>, <<"A", "_">>},
        t \in {<<"1", "x", "2">>, <<"0", "1", "x", "0", "2">>,
         <<"1", "2", "x", "3", "4", "5">>, <<"1", "X", "2">>,
         <<"1", "2", "3", "x", "2">>, <<"1", "x", "2", "3", "4", "5">>,
         <<"x", "2">>, <<"1", "x">>, <<"S", "0", "1", "E", "0", "2">>,
         <<"s", "1", "e", "2">>, <<"S", "1", "E", "0", "0", "2">>,
         <<"S", "0", "1", "e", "0", "2">>,
         <<"S", "0", "0", "1", "E", "0", "2">>,
         <<"S", "0", "1", "E", "0", "2", "3", "4">>, <<"S", "0", "1">>,
         <<"S", "0", "1", "x", "E", "0", "2">>},
        s \in {<<>>, <<"T">>, <<" ", "T">>, <<".", "T">>, <<"_", "T">>}}

\* "Show.Name.S01E02.Episode.Title.mkv"
NameDotted ==
    <<"S", "h", "o", "w", ".", "N", "a", "m", "e", ".", "S", "0", "1", "E",
      "0", "2", ".", "E", "p", "i", "s", "o", "d", "e", ".", "T", "i", "t",
      "l", "e", ".", "m", "k", "v">>

\* "Show Name 1x2 Episode Title.mkv"
NameSpaced ==
    <<"S", "h", "o", "w", " ", "N", "a", "m", "e", " ", "1", "x", "2", " ",
      "E", "p", "i", "s", "o", "d", "e", " ", "T", "i", "t", "l", "e", ".",
      "m", "k", "v">>

\* "2001 A Space Odyssey (1968).mkv"
NameOdyssey ==
    <<"2", "0", "0", "1", " ", "A", " ", "S", "p", "a", "c", "e", " ", "O",
      "d", "y", "s", "s", "e", "y", " ", "(", "1", "9", "6", "8", ")", ".",
      "m", "k", "v">>

\* "Inception (2010) BluRay.mkv"
NameInception ==
    <<"I", "n", "c", "e", "p", "t", "i", "o", "n", " ", "(", "2", "0", "1",
      "0", ")", " ", "B", "l", "u", "R", "a", "y", ".", "m", "k", "v">>

\* "Up (Docter, 2009) HD.mkv"
NameDirector ==
    <<"U", "p", " ", "(", "D", "o", "c", "t", "e", "r", ",", " ", "2", "0",
      "0", "9", ")", " ", "H", "D", ".", "m", "k", "v">>

\* "Up 2009 HD.mkv"
NameBare ==
    <<"U", "p", " ", "2", "0", "0", "9", " ", "H", "D", ".", "m", "k", "v">>

\* "A (x, 1999) B [2005] C.mkv"
NameTextThenAlone ==
    <<"A", " ", "(", "x", ",", " ", "1", "9", "9", "9", ")", " ", "B", " ",
      "[", "2", "0", "0", "5", "]", " ", "C", ".", "m", "k", "v">>

\* "A 1999 (x 2005) B.mkv"
NameBareThenText ==
    <<"A", " ", "1", "9", "9", "9", " ", "(", "x", " ", "2", "0", "0", "5",
      ")", " ", "B", ".", "m", "k", "v">>

\* "A (1899) 2100.mkv"
NameNoYear ==
    <<"A", " ", "(", "1", "8", "9", "9", ")", " ", "2", "1", "0", "0", ".",
      "m", "k", "v">>

\* "Lost (2010) 1x02.mkv": an episode name with a year hint and no tag
NameHinted ==
    <<"L", "o", "s", "t", " ", "(", "2", "0", "1", "0", ")", " ", "1", "x",
      "0", "2", ".", "m", "k", "v">>

\* "A 1x234[tmdbid-7] 5.mkv": a tag between a token and a digit
NameGlued ==
    <<"A", " ", "1", "x", "2", "3", "4", "[", "t", "m", "d", "b", "i", "d",
      "-", "7", "]", " ", "5", ".", "m", "k", "v">>

\* "A 3x4 S01E02.mkv": an NxM token before an SxxEyy token
NameBothTokens ==
    <<"A", " ", "3", "x", "4", " ", "S", "0", "1", "E", "0", "2", ".", "m",
      "k", "v">>

\* the incoming directory holds one video file
NameListings ==
    {<<n>> : n \in TokenNames \cup
                   {NameDotted, NameSpaced, NameOdyssey, NameInception,
                    NameDirector, NameBare, NameTextThenAlone,
                    NameBareThenText, NameNoYear, NameHinted, NameGlued,
                    NameBothTokens, FileEpisode, FileEpisodeTagged}}

\* the contents of series.json: none, an entry for "lost", an entry
\* without tmdbid before one with, and an entry whose key holds a year
NameSeriesTables ==
    { <<>>,
      <<[key |-> <<"l", "o", "s", "t">>, tmdbid |-> <<"7">>]>>,
      <<[key |-> <<"L", "o", "s", "t">>, tmdbid |-> <<>>],
        [key |-> <<"L", ".", "O", ".", "S", ".", "T", "!">>,
         tmdbid |-> <<"9">>]>>,
      <<[key |-> <<"L", "o", "s", "t">>, tmdbid |-> <<>>],
        [key |-> <<"l", "o", "s", "t", " ", "2", "0", "1", "0">>,
         tmdbid |-> <<"5">>]>> }

NameInit ==
    /\ cfg = [token |-> TRUE, moviesExists |-> TRUE, seriesExists |-> TRUE,
              link |-> FALSE, dryRun |-> FALSE, keepFileEpisode |-> FALSE]
    /\ seriesData \in NameSeriesTables
    /\ listing \in NameListings
    /\ extLinks = {}
    /\ fs = InitialFs(listing, cfg)
    /\ memo = <<>>
    /\ runNo = 1
    /\ pc = "boot"
    /\ exitCode = -1
    /\ videoFiles = <<>>
    /\ idx = 0
    /\ awaiting = 0
    /\ inflight = {}
    /\ rejected = FALSE
    /\ outcome = <<>>
    /\ log = <<>>
    /\ prevLog = <<>>
    /\ prevPlaced = {}
    /\ calls = <<>>
    /\ fsDone = <<>>

\* the run up to the first await of the parser of the file
NameSpec == NameInit /\ [][Boot \/ MainStart \/ BeginItem]_vars

\* ------------------------------------------------------------------------
\* Observations the properties are stated with
\* ------------------------------------------------------------------------

Range(seq) == {seq[k] : k \in DOMAIN seq}

\* the video files the incoming directory holds now
IncomingVideos ==
    {f \in Range(listing) :
        /\ Join(IncomingPath, f) \in DOMAIN fs.files
        /\ LastDotPart(f) \in EXTENSIONS_DEFAULT}

\* the lines logged before a filesystem call
PlacementLines ==
    {"Create folder", "Move file to", "Link file to", "Move subtitle to",
     "Link subtitle to", "Move meta to"}

\* the first catalog query of an item, and whether it has issued one
HasCall(i) == \E k \in DOMAIN calls : calls[k].item = i
FirstCall(i) == calls[MinPos({k \in DOMAIN calls : calls[k].item = i})].query

\* the candidates an item is left with once the catalog has answered its
\* first query
Candidates(i) ==
    LET q == FirstCall(i)
    IN  CASE q.endpoint = "search.movies" ->
                NarrowMovies(memo[q], q.query, NumStr(q.year))
          [] q.endpoint = "search.tvShows" -> NarrowShows(memo[q], q.query)
          [] OTHER -> memo[q]

\* the digit strings of the [tmdbid-<digits>] tags of a name, any case
IdTags(name) ==
    {SubSeq(name, i + 8, RunEnd(name, i + 8, Digits) - 1) :
        i \in {k \in 1..Len(name) :
                  /\ k + 8 <= Len(name)
                  /\ ToLower(SubSeq(name, k, k + 7))
                       = <<"[", "t", "m", "d", "b", "i", "d", "-">>
                  /\ RunEnd(name, k + 8, Digits) > k + 8
                  /\ Ch(name, RunEnd(name, k + 8, Digits)) = "]"}}

\* ------------------------------------------------------------------------
\* C1
\* ------------------------------------------------------------------------

IsSkipped(i) == i \in DOMAIN outcome /\ outcome[i].status = "Skipped"

LaterSettled(i) ==
    /\ i \in DOMAIN outcome
    /\ \A j \in DOMAIN outcome :
          j > i => outcome[j].status \in {"Placed", "Skipped"}

\* C1: an item that ends Skipped (parse failure or resolution failure) does
\* not abort the batch: when the process has ended, every item after it in
\* enumeration order has been processed and is Placed or Skipped.
C1_SkipNeverAborts ==
    \A i \in DOMAIN outcome :
        (IsSkipped(i) /\ pc = "exited") => LaterSettled(i)

\* ------------------------------------------------------------------------
\* C2
\* ------------------------------------------------------------------------

\* C2: when a filesystem call of the placement of an item throws, the run
\* goes on to every remaining item: the process does not end with a later
\* item still Pending.
C2_FailureConfined ==
    \A i \in DOMAIN outcome :
        (pc = "exited" /\ outcome[i].status = "Failed")
          => \A j \in DOMAIN outcome : j > i => outcome[j].status # "Pending"

\* ------------------------------------------------------------------------
\* C3
\* ------------------------------------------------------------------------

\* C3: an item whose file name holds a [tmdbid-<digits>] tag, in any case,
\* never issues a search query, and its movie or show lookup by id asks for
\* the digits of the tag.
C3_TagBypassesSearch ==
    \A k \in DOMAIN calls :
        LET name == videoFiles[calls[k].item]
            q    == calls[k].query
        IN  IdTags(name) # {} =>
              /\ q.endpoint \notin {"search.movies", "search.tvShows"}
              /\ q.endpoint \in {"movies.details", "tvShows.details"}
                   => \E d \in IdTags(name) : q.id = ParseInt(d)

\* a tagged movie and a tagged episode of one run have both asked by id
C3_Witness ==
    /\ \E k \in DOMAIN calls :
          /\ IdTags(videoFiles[calls[k].item]) # {}
          /\ calls[k].query.endpoint = "movies.details"
    /\ \E k \in DOMAIN calls :
          /\ IdTags(videoFiles[calls[k].item]) # {}
          /\ calls[k].query.endpoint = "tvShows.details"

\* ------------------------------------------------------------------------
\* C4
\* ------------------------------------------------------------------------

\* a movie or show was resolved for the item: it went on to placement, or
\* to the episode query
Resolved(i) ==
    \/ outcome[i].status \in {"Placed", "Failed", "Aborted"}
    \/ \E k \in DOMAIN calls :
          calls[k].item = i /\ calls[k].query.endpoint = "tvEpisode.details"

\* C4: a movie or show is resolved only when the narrowing leaves exactly
\* one candidate; an item left with several is skipped as Ambiguous with
\* the candidates listed, and nothing is placed for it.
C4_ExactlyOneCandidate ==
    \A i \in DOMAIN outcome :
        /\ Resolved(i) => Len(Candidates(i)) = 1
        /\ ( /\ outcome[i].status # "Pending"
             /\ HasCall(i)
             /\ Len(Candidates(i)) > 1 )
           => /\ outcome[i] = Skipped("Ambiguous")
              /\ \E k \in DOMAIN log :
                    log[k] = Line(i, "Multiple titles found",
                                  [n \in 1..Len(Candidates(i)) |->
                                     Candidates(i)[n].id])
              /\ \A k \in DOMAIN fsDone : fsDone[k].item # i
              /\ \A k \in DOMAIN log :
                    log[k].item = i => log[k].line \notin PlacementLines

\* an item is Ambiguous between two candidates of the same simplified title
\* and year, both without synopsis
C4_Witness ==
    \E i \in DOMAIN outcome :
        /\ outcome[i] = Skipped("Ambiguous")
        /\ FirstCall(i).endpoint = "search.movies"
        /\ Len(Candidates(i)) = 2
        /\ \A n \in 1..2 :
              /\ Candidates(i)[n].overview = <<>>
              /\ simplify(Candidates(i)[n].title) = simplify(FirstCall(i).query)
              /\ StartsWith(Candidates(i)[n].release_date,
                            NumStr(FirstCall(i).year))

\* ------------------------------------------------------------------------
\* C5
\* ------------------------------------------------------------------------

\* C5: in dry-run mode no filesystem call is carried out and the filesystem
\* stays as it was, and a second dry run on the same inputs and the same
\* catalog answers logs the same lines as the first.
C5_DryRunIsInert ==
    cfg.dryRun =>
        /\ fs = InitialFs(listing, cfg)
        /\ fsDone = <<>>
        /\ (runNo > 1 /\ pc = "exited") => log = prevLog

\* a second dry run has ended, with a video, a subtitle and a meta file
\* among its intended actions
C5_Witness ==
    /\ cfg.dryRun
    /\ runNo = 2
    /\ pc = "exited"
    /\ \E k \in DOMAIN log : log[k].line = "Move file to"
    /\ \E k \in DOMAIN log : log[k].line = "Move subtitle to"
    /\ \E k \in DOMAIN log : log[k].line = "Move meta to"

\* ------------------------------------------------------------------------
\* C6
\* ------------------------------------------------------------------------

\* C6: every transfer of an item uses the transfer mode of the run: in link
\* mode each one is a hard link and no file leaves the incoming directory,
\* in move mode each one is a rename.
C6_OneTransferMode ==
    /\ \A k \in DOMAIN fsDone :
          fsDone[k].op # "mkdir"
            => fsDone[k].op = (IF cfg.link THEN "link" ELSE "rename")
    /\ cfg.link =>
          \A f \in Range(listing) : Join(IncomingPath, f) \in DOMAIN fs.files

\* ------------------------------------------------------------------------
\* C7
\* ------------------------------------------------------------------------

\* the link count of an incoming file
LinksOf(f) == LinkCount(fs, extLinks, fs.files[Join(IncomingPath, f)])

\* an incoming file has a second name, and one of its names is in the
\* movies or the series tree
LinkedInto(f) ==
    /\ LinksOf(f) > 1
    /\ \E p \in DOMAIN fs.files :
          /\ Under(p, MoviesPath) \/ Under(p, SeriesPath)
          /\ fs.files[p] = fs.files[Join(IncomingPath, f)]

\* C7: in link mode an incoming video that is already linked into the
\* movies or series tree is left out of the enumeration, and no step issues
\* a catalog query or carries out a filesystem call for it; a video with
\* link count 1 is enumerated.
C7_AlreadyLinkedSkipped ==
    [][cfg.link =>
         \A f \in IncomingVideos :
            /\ LinkedInto(f) =>
                  /\ pc = "main" => f \notin Range(videoFiles')
                  /\ Len(calls') > Len(calls)
                       => videoFiles[calls'[Len(calls')].item] # f
                  /\ \A k \in (Len(fsDone) + 1)..Len(fsDone') :
                        videoFiles[fsDone'[k].item] # f
            /\ (LinksOf(f) = 1 /\ pc = "main" /\ pc' = "loop")
                  => f \in Range(videoFiles')
    ]_vars

\* a second run in link mode found every video linked and had nothing to do
C7_Witness ==
    /\ cfg.link
    /\ runNo = 2
    /\ pc = "exited"
    /\ exitCode = 0
    /\ videoFiles = <<>>
    /\ \E f \in IncomingVideos : LinkedInto(f)

\* ------------------------------------------------------------------------
\* C8
\* ------------------------------------------------------------------------

\* the items of a sequence of records never go back
InItemOrder(seq) ==
    \A k, n \in DOMAIN seq : k < n => seq[k].item <= seq[n].item

\* the lines of the items (item 0 is the run itself)
ItemLog == SelectSeq(log, LAMBDA l : l.item # 0)

\* C8: the items are processed one after the other in enumeration order:
\* the queries in flight are those of one item, an item logs or queries
\* only when every item before it has settled, and the log, the queries
\* and the filesystem calls follow the enumeration order.
C8_Sequential ==
    /\ Cardinality({r.item : r \in inflight}) <= 1
    /\ \A i \in {l.item : l \in Range(ItemLog)}
                 \cup {c.item : c \in Range(calls)} :
          \A j \in DOMAIN outcome :
             j < i =>
                /\ outcome[j].status # "Pending"
                /\ \A r \in inflight : r.item # j
    /\ InItemOrder(ItemLog)
    /\ InItemOrder(calls)
    /\ InItemOrder(fsDone)

\* the second item has begun after a query and a filesystem call of the
\* first
C8_Witness ==
    /\ \E k \in DOMAIN calls : calls[k].item = 1
    /\ \E k \in DOMAIN fsDone : fsDone[k].item = 1
    /\ \E k \in DOMAIN calls : calls[k].item = 2

\* ------------------------------------------------------------------------
\* C9
\* ------------------------------------------------------------------------

ConfigFailure ==
    \/ ~cfg.token
    \/ ~existsSync(fs, MoviesPath)
    \/ ~existsSync(fs, SeriesPath)

\* C9: on a configuration failure the run does not begin: nothing is
\* enumerated, queried or changed, and the exit code is 1; a run that finds
\* no video file exits with code 0.
C9_ConfigFailureStopsRun ==
    /\ ConfigFailure =>
          /\ pc # "loop"
          /\ videoFiles = <<>>
          /\ calls = <<>>
          /\ fsDone = <<>>
          /\ fs = InitialFs(listing, cfg)
          /\ pc = "exited" => exitCode = 1
    /\ (~ConfigFailure /\ pc = "exited" /\ videoFiles = <<>>)
          => exitCode = 0 /\ calls = <<>> /\ fsDone = <<>>

\* a run ended with code 1 for a series path that does not exist, with a
\* video waiting in the incoming directory
C9_Witness ==
    /\ pc = "exited"
    /\ exitCode = 1
    /\ cfg.token
    /\ ~existsSync(fs, SeriesPath)
    /\ IncomingVideos # {}

\* ------------------------------------------------------------------------
\* C10
\* ------------------------------------------------------------------------

\* the destinations of the filesystem calls carried out or intended
Destinations ==
    {fsDone[k].dst : k \in DOMAIN fsDone}
      \cup {log[k].arg : k \in {n \in DOMAIN log :
                                  log[n].line \in PlacementLines}}

\* the part of a destination below the movies or series path
Below(d) == From(d, Len(MoviesPath) + 2)

Slashes(s) == {i \in 1..Len(s) : s[i] = "/"}

\* C10: no component of a destination holds ':' , '/' or NUL: a movie
\* destination is a folder or a file in it, an episode destination is a
\* show folder, then 'Season NN', then a file.
C10_Sanitized ==
    \A d \in Destinations :
        /\ \A i \in 1..Len(d) : d[i] \notin {":", NUL}
        /\ Under(d, MoviesPath) \/ Under(d, SeriesPath)
        /\ Under(d, MoviesPath) => Cardinality(Slashes(Below(d))) <= 1
        /\ Under(d, SeriesPath) =>
              /\ Cardinality(Slashes(Below(d))) \in {1, 2}
              /\ StartsWith(From(Below(d), MinPos(Slashes(Below(d))) + 1),
                            <<"S", "e", "a", "s", "o", "n", " ">>)

\* a file was placed under a title that held a colon and a slash ("Up:/")
C10_Witness ==
    \E k \in DOMAIN fsDone :
        /\ fsDone[k].op # "mkdir"
        /\ Contains(fsDone[k].dst, <<"/", "U", "p", ".", "-", " ", "(">>)

\* ------------------------------------------------------------------------
\* C11
\* ------------------------------------------------------------------------

\* the position of a name in the listing: the inode its file had before the
\* first run
PosOf(f) == CHOOSE i \in DOMAIN listing : listing[i] = f

\* the file of position i has a name in the movies or the series tree
Arrived(i) ==
    \E p \in DOMAIN fs.files :
        /\ Under(p, MoviesPath) \/ Under(p, SeriesPath)
        /\ fs.files[p] = i

\* the file of position i is in the incoming directory under its name
InIncoming(i) ==
    /\ Join(IncomingPath, listing[i]) \in DOMAIN fs.files
    /\ fs.files[Join(IncomingPath, listing[i])] = i

IsVideo(i) == LastDotPart(listing[i]) \in EXTENSIONS_DEFAULT

\* the sidecars of the video of position v: its subtitles, and for a movie
\* its meta files
SidecarsOf(v) ==
    {s \in DOMAIN listing \ {v} :
        \/ IsSubtitleOf(listing[s], StripExtension(listing[v]))
        \/ /\ ~isEpisodeFile(listing[v])
           /\ \E m \in Range(meta) :
                 listing[s] = StripExtension(listing[v]) \o m}

\* the run before this one was ended from outside
AfterAbort == \E k \in DOMAIN prevLog : prevLog[k].line = "Killed"

\* this run has come to its end and no filesystem call of it threw
CleanRun ==
    /\ pc = "exited"
    /\ exitCode = 0
    /\ \A i \in DOMAIN outcome : outcome[i].status # "Failed"
    /\ \A k \in DOMAIN log :
          log[k].line \notin {"Unhandled rejection: exit",
                              "Unhandled rejection: warning"}

\* the items placed before the process was ended are in their final state,
\* the items not yet begun are untouched in the incoming directory
C11_AbortLeavesItemsWhole ==
    (pc = "exited" /\ exitCode = 137) =>
        \A j \in DOMAIN outcome :
            LET v == PosOf(videoFiles[j])
            IN  /\ outcome[j].status = "Pending" =>
                      \A i \in {v} \cup SidecarsOf(v) :
                          InIncoming(i) /\ (runNo = 1 => ~Arrived(i))
                /\ outcome[j].status = "Placed" =>
                      \A i \in {v} \cup SidecarsOf(v) : Arrived(i)

\* C11: the run is crash-safe: when the process is ended between two
\* filesystem calls, the items already placed are in their final state and
\* the items not yet processed are untouched, and the next run in the same
\* mode brings the sidecars of every video to where the video is, as an
\* uninterrupted run does.
C11_CrashSafe ==
    /\ C11_AbortLeavesItemsWhole
    /\ (AfterAbort /\ CleanRun) =>
          \A v \in DOMAIN listing :
              (IsVideo(v) /\ Arrived(v))
                 => \A s \in SidecarsOf(v) : Arrived(s)

\* ------------------------------------------------------------------------
\* C12
\* ------------------------------------------------------------------------

\* the lines and the calls of the transfer of the primary video of an item
IsVideoLine(l, i) ==
    l.item = i /\ l.line \in {"Move file to", "Link file to"}

IsVideoCall(c, i) ==
    c.item = i /\ c.src = Join(IncomingPath, videoFiles[i])

\* the part of a date before its first '-'
YearPart(date) ==
    SubSeq(date, 1,
           (IF \E n \in DOMAIN date : date[n] = "-"
            THEN MinPos({n \in DOMAIN date : date[n] = "-"})
            ELSE Len(date) + 1) - 1)

\* "<title> (<year>) [tmdbid-<id>]" for a movie record, <year> the part of
\* release_date before the first '-'
MovieFolderName(title, m) ==
    title \o <<" ", "(">> \o YearPart(m.release_date)
          \o <<")", " ", "[", "t", "m", "d", "b", "i", "d", "-">>
          \o NumStr(m.id) \o <<"]">>

\* "<folder> - <sanitized R>.<E>"
MovieFileName(folder, R, E) ==
    folder \o <<" ", "-", " ">> \o sanitizeFilename(R) \o <<".">> \o E

\* the names of the listings, and what parseMovieFilename makes of each
ListedNames == UNION {{l[k] : k \in DOMAIN l} : l \in Listings}

MovieParses == [f \in ListedNames |-> MovieParse(f)]

\* the lines and the calls of an item name the folder `dir` and put the
\* primary video at `file`
DestinationsAre(i, dir, file) ==
    /\ \A k \in DOMAIN log :
          /\ (log[k].item = i /\ log[k].line = "Create folder")
                => log[k].arg = dir
          /\ IsVideoLine(log[k], i) => log[k].arg = file
    /\ \A k \in DOMAIN fsDone :
          /\ (fsDone[k].item = i /\ fsDone[k].op = "mkdir")
                => fsDone[k].dst = dir
          /\ IsVideoCall(fsDone[k], i) => fsDone[k].dst = file

\* the destinations of a movie item are those of the folder name `name`
MovieDestinationsAre(i, name) ==
    \E folder \in {name} :
    \E ctx \in {MovieParses[videoFiles[i]].ctx} :
    \E dir \in {Join(MoviesPath, folder)} :
        DestinationsAre(i, dir,
            Join(dir, MovieFileName(folder, ctx.rest, ctx.extension)))

\* the movie items that went on to placement
MovieItemsPlaced ==
    {i \in DOMAIN outcome :
        /\ \E k \in DOMAIN log : IsVideoLine(log[k], i)
        /\ FirstCall(i).endpoint \in {"movies.details", "search.movies"}}

\* C12 as stated: the folder of a resolved movie is
\* "<sanitized title> (<year>) [tmdbid-<id>]" and its file is
\* "<folder> - <sanitized remainder>.<ext>".
C12_MovieNamesAsStated ==
    \A i \in MovieItemsPlaced :
        MovieDestinationsAre(i,
            MovieFolderName(sanitizeFilename(Candidates(i)[1].title),
                            Candidates(i)[1]))

\* C12, amended: the same, with each " - " of the catalog title replaced by
\* ". " before the title is sanitized.
C12_MovieNames ==
    \A i \in MovieItemsPlaced :
        MovieDestinationsAre(i,
            MovieFolderName(
                sanitizeFilename(ReplaceAll(Candidates(i)[1].title,
                                            <<" ", "-", " ">>, <<".", " ">>)),
                Candidates(i)[1]))

\* a movie with an empty remainder was moved to "Up (2009) [tmdbid-1]/
\* Up (2009) [tmdbid-1] - .mkv"
C12_Witness ==
    \E k \in DOMAIN fsDone :
        /\ fsDone[k].op = "rename"
        /\ fsDone[k].src = Join(IncomingPath, FileUp)
        /\ fsDone[k].dst =
              <<"m", "v", "/", "U", "p", " ", "(", "2", "0", "0", "9", ")",
                " ", "[", "t", "m", "d", "b", "i", "d", "-", "1", "]", "/",
                "U", "p", " ", "(", "2", "0", "0", "9", ")", " ", "[", "t",
                "m", "d", "b", "i", "d", "-", "1", "]", " ", "-", " ", ".",
                "m", "k", "v">>

\* ------------------------------------------------------------------------
\* C13
\* ------------------------------------------------------------------------

\* the parts of the episode names of the listings: season, episode, the
\* title guess, the remainder, the extension and the year of the name
EpisodeParts ==
    FileEpisode :>
        [season |-> 1, episode |-> 2, episodeTitle |-> <<"P", "i">>,
         rest |-> <<>>, extension |-> <<"m", "k", "v">>, year |-> NoYear]
    @@ FileEpisodeTagged :>
        [season |-> 1, episode |-> 102, episodeTitle |-> <<"a", ":", "b">>,
         rest |-> <<"(", "c", ":", "d", ")">>,
         extension |-> <<"m", "p", "4">>, year |-> 2010]
    @@ FileEpisodeBare :>
        [season |-> 1, episode |-> 2, episodeTitle |-> <<>>,
         rest |-> <<>>, extension |-> <<"m", "k", "v">>, year |-> NoYear]
    @@ FileEpisodeZero :>
        [season |-> 0, episode |-> 0, episodeTitle |-> <<"P", "i">>,
         rest |-> <<>>, extension |-> <<"m", "k", "v">>, year |-> NoYear]

\* a number in at least two digits
TwoDigits(n) ==
    IF n < 10 THEN <<"0", ToString(n)>>
    ELSE IF n < 100 THEN <<ToString(n \div 10), ToString(n % 10)>>
    ELSE <<ToString(n \div 100), ToString((n \div 10) % 10),
           ToString(n % 10)>>

\* the episode items that went on to placement
EpisodeItemsPlaced ==
    {i \in DOMAIN outcome :
        /\ \E k \in DOMAIN log : IsVideoLine(log[k], i)
        /\ FirstCall(i).endpoint \in {"tvShows.details", "search.tvShows"}}

\* the episode record the catalog answered the item with
EpisodeOf(i) ==
    memo[calls[MaxPos({k \in DOMAIN calls : calls[k].item = i})].query][1]

\* "<show name> (<firstAirYear>) [tmdbid-<showId>]/Season <SS>"
EpisodeFolderName(show, season) ==
    sanitizeFilename(show.name)
      \o <<" ", "(">> \o YearPart(show.first_air_date)
      \o <<")", " ", "[", "t", "m", "d", "b", "i", "d", "-">>
      \o NumStr(show.id)
      \o <<"]", "/", "S", "e", "a", "s", "o", "n", " ">>
      \o TwoDigits(season)

\* the year of the episode: of its air date, else of the file name, else the
\* first-air year of the show
EpisodeYear(show, info, ctx) ==
    IF info.air_date # <<>> THEN YearPart(info.air_date)
    ELSE IF ctx.year # NoYear THEN NumStr(ctx.year)
    ELSE YearPart(show.first_air_date)

\* "<show name> (<episodeYear>) S<SS>E<EE> <title>< - remainder>.<ext>"
EpisodeFileName(show, info, ctx, title) ==
    sanitizeFilename(show.name)
      \o <<" ", "(">> \o EpisodeYear(show, info, ctx) \o <<")", " ", "S">>
      \o TwoDigits(ctx.season) \o <<"E">> \o TwoDigits(ctx.episode)
      \o <<" ">> \o sanitizeFilename(title)
      \o (IF ctx.rest # <<>>
          THEN <<" ", "-", " ">> \o sanitizeFilename(ctx.rest)
          ELSE <<>>)
      \o <<".">> \o ctx.extension

\* C13: the folder of a resolved episode is "<sanitized show name>
\* (<firstAirYear>) [tmdbid-<showId>]/Season <SS>" and its file is
\* "<sanitized show name> (<episodeYear>) S<SS>E<EE> <sanitized chosen
\* episode title>", then " - <sanitized remainder>" when there is a
\* remainder, then ".<ext>"; season and episode have at least two digits.
C13_EpisodeNames ==
    \A i \in EpisodeItemsPlaced :
        \E ctx \in {EpisodeParts[videoFiles[i]]} :
        \E show \in {Candidates(i)[1]} :
        \E info \in {EpisodeOf(i)} :
        \E dir \in {Join(SeriesPath, EpisodeFolderName(show, ctx.season))} :
            DestinationsAre(i, dir,
                Join(dir, EpisodeFileName(show, info, ctx,
                              IF cfg.keepFileEpisode THEN ctx.episodeTitle
                              ELSE info.name)))

\* an episode with a three-digit number, a title and a remainder was moved
\* to ".../Season 01/Lost (2005) S01E102 Pi - (c.d).mp4"
C13_Witness ==
    \E k \in DOMAIN fsDone :
        /\ fsDone[k].op = "rename"
        /\ fsDone[k].dst =
              <<"t", "v", "/", "L", "o", "s", "t", " ", "(", "2", "0", "0",
                "4", ")", " ", "[", "t", "m", "d", "b", "i", "d", "-", "7",
                "]", "/", "S", "e", "a", "s", "o", "n", " ", "0", "1", "/",
                "L", "o", "s", "t", " ", "(", "2", "0", "0", "5", ")", " ",
                "S", "0", "1", "E", "1", "0", "2", " ", "P", "i", " ", "-",
                " ", "(", "c", ".", "d", ")", ".", "m", "p", "4">>

\* ------------------------------------------------------------------------
\* C14
\* ------------------------------------------------------------------------

Alphanumeric == LowerCase \cup UpperCase \cup Digits

\* the words of a name: its longest runs of letters and digits (an
\* underscore counts as a blank)
WordsOf(s) ==
    {SubSeq(s, p, q) : <<p, q>> \in
        {pq \in (1..Len(s)) \X (1..Len(s)) :
            /\ pq[1] <= pq[2]
            /\ \A n \in pq[1]..pq[2] : s[n] \in Alphanumeric
            /\ pq[1] = 1 \/ s[pq[1] - 1] \notin Alphanumeric
            /\ pq[2] = Len(s) \/ s[pq[2] + 1] \notin Alphanumeric}}

AllDigits(w, from, to) == \A n \in from..to : w[n] \in Digits

\* a word that is an NxM token: 1-2 digits, x, 1-3 digits
IsNxMWord(w) ==
    \E a \in 1..2, b \in 1..3 :
        /\ Len(w) = a + 1 + b
        /\ AllDigits(w, 1, a)
        /\ w[a + 1] \in {"x", "X"}
        /\ AllDigits(w, a + 2, a + 1 + b)

\* a word that is an SxxEyy token: S, 1-2 digits, E, 1-3 digits
IsSxxEyyWord(w) ==
    \E a \in 1..2, b \in 1..3 :
        /\ Len(w) = a + 2 + b
        /\ w[1] \in {"s", "S"}
        /\ AllDigits(w, 2, a + 1)
        /\ w[a + 2] \in {"e", "E"}
        /\ AllDigits(w, a + 3, a + 2 + b)

HasEpisodeWord(name) ==
    \E w \in WordsOf(name) : IsNxMWord(w) \/ IsSxxEyyWord(w)

\* main has handed the first file to parseEpisodeFilename, or to
\* parseMovieFilename
HandledAsEpisode ==
    \/ outcome[1] = Skipped("NoSeasonEpisode")
    \/ \E r \in inflight : r.item = 1 /\ r.ctx.kind = "episode"

HandledAsMovie ==
    \/ outcome[1] = Skipped("NoYearFound")
    \/ \E r \in inflight : r.item = 1 /\ r.ctx.kind = "movie"

\* C14: a file is handled as an episode exactly when its name holds, as a
\* whole word and in any case, an NxM or an SxxEyy token, and as a movie
\* otherwise; "Show.Name.S01E02.Episode.Title.mkv" and "Show Name 1x2
\* Episode Title.mkv" are episodes of season 1, episode 2.
C14_EpisodeClassification ==
    idx = 2 =>
        /\ HandledAsEpisode <=> HasEpisodeWord(videoFiles[1])
        /\ HandledAsMovie <=> ~HasEpisodeWord(videoFiles[1])
        /\ videoFiles[1] \in {NameDotted, NameSpaced} =>
              \E r \in inflight :
                  /\ r.ctx.kind = "episode"
                  /\ r.ctx.season = 1
                  /\ r.ctx.episode = 2

\* a name with its token between underscores was handed to the episode
\* parser, which found season 1 and episode 2 in it
C14_Witness ==
    /\ idx = 2
    /\ videoFiles[1] = <<"A", "_", "0", "1", "x", "0", "2", "_", "T", ".",
                         "m", "k", "v">>
    /\ \E r \in inflight :
          r.ctx.kind = "episode" /\ r.ctx.season = 1 /\ r.ctx.episode = 2

\* ------------------------------------------------------------------------
\* C15
\* ------------------------------------------------------------------------

IsLetterRun(t) == Len(t) \in {2, 3} /\ \A n \in DOMAIN t : t[n] \in Letters

\* a language code: two or three letters, with or without a region of two
\* or three letters after '-' or '_'
IsLanguageCode(t) ==
    \/ IsLetterRun(t)
    \/ \E n \in 3..4 :
          /\ Len(t) > n
          /\ IsLetterRun(SubSeq(t, 1, n - 1))
          /\ t[n] \in {"-", "_"}
          /\ IsLetterRun(From(t, n + 1))

\* the part ".lang" (or nothing) of a tail ".lang.ext" or ".ext"
LanguagePart(tail) ==
    SubSeq(tail, 1, MaxPos({n \in DOMAIN tail : tail[n] = "."}) - 1)

\* the extension of such a tail
ExtensionPart(tail) ==
    From(tail, MaxPos({n \in DOMAIN tail : tail[n] = "."}) + 1)

\* the file is the base name, an optional language code and a known
\* subtitle extension
IsSubtitleFileOf(file, base) ==
    /\ StartsWith(file, base)
    /\ Len(file) > Len(base)
    /\ file[Len(base) + 1] = "."
    /\ ToLower(ExtensionPart(From(file, Len(base) + 1))) \in subtitleExtensions
    /\ \/ LanguagePart(From(file, Len(base) + 1)) = <<>>
       \/ IsLanguageCode(Tail(LanguagePart(From(file, Len(base) + 1))))

IsSubtitleLine(l, i) ==
    l.item = i /\ l.line \in {"Move subtitle to", "Link subtitle to"}

\* the subtitle of the file goes next to the video of the item, under the
\* name of the video with the language and the extension of the subtitle
SubtitleFollows(i, file, videoPath) ==
    \E n \in DOMAIN log :
        /\ IsSubtitleLine(log[n], i)
        /\ log[n].arg =
             StripExtension(videoPath)
               \o LanguagePart(From(file, Len(StripExtension(videoFiles[i])) + 1))
               \o <<".">>
               \o ToLower(ExtensionPart(
                      From(file, Len(StripExtension(videoFiles[i])) + 1)))

\* C15: every file of the incoming directory named as the video's base
\* name, an optional language code and a known subtitle extension goes to
\* the folder of the video under the video's new base name followed by the
\* same language code and the extension.
C15_SubtitleNames ==
    \A i \in DOMAIN outcome :
        (runNo = 1 /\ outcome[i] = Placed) =>
            \A k \in DOMAIN log :
                IsVideoLine(log[k], i) =>
                    \A f \in Range(listing) :
                        IsSubtitleFileOf(f, StripExtension(videoFiles[i]))
                            => SubtitleFollows(i, f, log[k].arg)

\* the same for the subtitles whose language code has no region
C15_PlainCodesFollow ==
    \A i \in DOMAIN outcome :
        (runNo = 1 /\ outcome[i] = Placed) =>
            \A k \in DOMAIN log :
                IsVideoLine(log[k], i) =>
                    \A f \in Range(listing) :
                        /\ IsSubtitleFileOf(f, StripExtension(videoFiles[i]))
                        /\ Len(LanguagePart(
                               From(f, Len(StripExtension(videoFiles[i])) + 1))) < 5
                        => SubtitleFollows(i, f, log[k].arg)

\* ------------------------------------------------------------------------
\* C16
\* ------------------------------------------------------------------------

\* the item searched for a movie and the catalog has answered
SearchedMovie(i) ==
    /\ HasCall(i)
    /\ FirstCall(i).endpoint = "search.movies"
    /\ FirstCall(i) \in DOMAIN memo

\* the places of the answer whose record has the simplified title and the
\* year of the query
TitleAndYearMatches(i) ==
    {n \in DOMAIN memo[FirstCall(i)] :
        /\ simplify(memo[FirstCall(i)][n].title)
             = simplify(FirstCall(i).query)
        /\ StartsWith(memo[FirstCall(i)][n].release_date,
                      NumStr(FirstCall(i).year))}

\* the item went on to placement, into the folder of the movie record
SelectedMovie(i, movie) ==
    /\ outcome[i].status \in {"Placed", "Failed", "Aborted"}
    /\ \A k \in DOMAIN log :
          (log[k].item = i /\ log[k].line = "Create folder")
             => IdTags(log[k].arg) = {NumStr(movie.id)}
    /\ outcome[i] = Placed =>
          \E k \in DOMAIN log : log[k].item = i /\ log[k].line = "Create folder"

\* C16: when a movie search answers with several records and exactly one of
\* them has the simplified title of the query and a release date that
\* starts with the year of the query, that record is selected, wherever it
\* stands in the answer.
C16_SingleMatchSelected ==
    \A i \in DOMAIN outcome :
        ( /\ outcome[i].status # "Pending"
          /\ SearchedMovie(i)
          /\ Len(memo[FirstCall(i)]) > 1
          /\ Cardinality(TitleAndYearMatches(i)) = 1 )
        => \A n \in TitleAndYearMatches(i) :
              SelectedMovie(i, memo[FirstCall(i)][n])

\* two records of the same title, of 1984 and of 2009, the one of the year
\* of the query last in the answer: the item is placed under it
C16_Witness ==
    \E i \in DOMAIN outcome :
        /\ outcome[i] = Placed
        /\ SearchedMovie(i)
        /\ memo[FirstCall(i)] = <<MovieUpOld, MovieUp>>
        /\ FirstCall(i).year = 2009
        /\ SelectedMovie(i, MovieUp)

\* ------------------------------------------------------------------------
\* C17
\* ------------------------------------------------------------------------

\* the places of the answer whose record matches title and year and has a
\* synopsis
MatchesWithSynopsis(i) ==
    {n \in TitleAndYearMatches(i) : memo[FirstCall(i)][n].overview # <<>>}

\* the item went on to placement
WentToPlacement(i) == outcome[i].status \in {"Placed", "Failed", "Aborted"}

\* C17: the synopsis rule of the movie narrowing works on the records that
\* match title and year: the only such record with a synopsis is selected
\* whatever the other records of the answer have, and a record that fails
\* the title-and-year filter is never selected out of an answer of several.
C17_SynopsisOfFiltered ==
    \A i \in DOMAIN outcome :
        ( /\ outcome[i].status # "Pending"
          /\ SearchedMovie(i)
          /\ Len(memo[FirstCall(i)]) > 1 )
        => /\ \A n \in MatchesWithSynopsis(i) :
                 Cardinality(MatchesWithSynopsis(i)) = 1
                    => SelectedMovie(i, memo[FirstCall(i)][n])
           /\ WentToPlacement(i) =>
                 /\ \/ Cardinality(MatchesWithSynopsis(i)) = 1
                    \/ Cardinality(TitleAndYearMatches(i)) = 1
                 /\ \E n \in TitleAndYearMatches(i) :
                       SelectedMovie(i, memo[FirstCall(i)][n])

\* the only record of the answer with a synopsis fails the title-and-year
\* filter, and the item is placed under the other one, which passes it
C17_Witness ==
    \E i \in DOMAIN outcome :
        /\ outcome[i] = Placed
        /\ SearchedMovie(i)
        /\ memo[FirstCall(i)] = <<MovieOther, MovieUpBis>>
        /\ TitleAndYearMatches(i) = {2}
        /\ SelectedMovie(i, MovieUpBis)

\* of two records that match title and year the one with a synopsis is
\* selected
C17_SynopsisDecides ==
    \E i \in DOMAIN outcome :
        /\ outcome[i] = Placed
        /\ SearchedMovie(i)
        /\ memo[FirstCall(i)] = <<MovieUpBis, MovieUp>>
        /\ TitleAndYearMatches(i) = {1, 2}
        /\ SelectedMovie(i, MovieUp)

\* ------------------------------------------------------------------------
\* C18
\* ------------------------------------------------------------------------

\* the title, the year and the remainder the three rules give, by name:
\* "2001 A Space Odyssey (1968)" and "Inception (2010) BluRay" by rule (a),
\* "Up (Docter, 2009) HD" by rule (b), "Up 2009 HD" by rule (c),
\* "A (x, 1999) B [2005] C" by rule (a) over (b) and (c), and
\* "A 1999 (x 2005) B" by rule (b) over (c)
MovieYearCases ==
    NameOdyssey :>
        [title |-> <<"2", "0", "0", "1", " ", "A", " ", "S", "p", "a", "c",
                    "e", " ", "O", "d", "y", "s", "s", "e", "y">>,
         year |-> 1968,
         rest |-> <<>>]
    @@ NameInception :>
        [title |-> <<"I", "n", "c", "e", "p", "t", "i", "o", "n">>,
         year |-> 2010,
         rest |-> <<"B", "l", "u", "R", "a", "y">>]
    @@ NameDirector :>
        [title |-> <<"U", "p">>,
         year |-> 2009,
         rest |-> <<"H", "D">>]
    @@ NameBare :>
        [title |-> <<"U", "p">>,
         year |-> 2009,
         rest |-> <<"H", "D">>]
    @@ NameTextThenAlone :>
        [title |-> <<"A", " ", "(", "x", ",", " ", "1", "9", "9", "9", ")",
                    " ", "B">>,
         year |-> 2005,
         rest |-> <<"C">>]
    @@ NameBareThenText :>
        [title |-> <<"A", " ", "1", "9", "9", "9">>,
         year |-> 2005,
         rest |-> <<"B">>]

\* four digits of which the first two are 19 or 20, somewhere in the name
HasYearDigits(name) ==
    \E p \in 1..(Len(name) - 3) :
        /\ SubSeq(name, p, p + 1) \in {<<"1", "9">>, <<"2", "0">>}
        /\ name[p + 2] \in Digits
        /\ name[p + 3] \in Digits

\* the file was skipped for want of a year, and the catalog was not asked
NoYearFound ==
    /\ outcome[1] = Skipped("NoYearFound")
    /\ calls = <<>>
    /\ inflight = {}

\* the file is searched for as a movie of the title and the year, and the
\* parser has kept the remainder and the extension
SearchedAs(title, year, rest, extension) ==
    \E r \in inflight :
        /\ r.item = 1
        /\ r.query.endpoint = "search.movies"
        /\ r.query.query = title
        /\ r.query.year = year
        /\ r.ctx.kind = "movie"
        /\ r.ctx.query = title
        /\ r.ctx.rest = rest
        /\ r.ctx.extension = extension

\* C18: the year of a movie name is found by the first of three rules that
\* matches: (a) a year 1900-2099 alone in () or [], (b) a year after
\* non-digit text in () or [], (c) a bare year anywhere; the title is the
\* trimmed text before the match and the remainder the trimmed text after
\* it, so "2001 A Space Odyssey (1968).mkv" is the title "2001 A Space
\* Odyssey" of 1968; a name no rule matches fails with NoYearFound and no
\* query is sent.
C18_YearRules ==
    idx = 2 =>
        /\ videoFiles[1] \in DOMAIN MovieYearCases =>
              SearchedAs(MovieYearCases[videoFiles[1]].title,
                         MovieYearCases[videoFiles[1]].year,
                         MovieYearCases[videoFiles[1]].rest,
                         <<"m", "k", "v">>)
        /\ ( /\ ~HasEpisodeWord(videoFiles[1])
             /\ ~HasYearDigits(videoFiles[1]) ) => NoYearFound
        /\ videoFiles[1] = NameNoYear => NoYearFound

\* the bracketed year of "2001 A Space Odyssey (1968).mkv" has won over the
\* bare 2001 before it
C18_Witness ==
    /\ idx = 2
    /\ videoFiles[1] = NameOdyssey
    /\ \E r \in inflight :
          /\ r.query.year = 1968
          /\ r.ctx.query = MovieYearCases[NameOdyssey].title
          /\ r.ctx.rest = <<>>

\* a name without a year was skipped before any query
C18_NoYearReached ==
    /\ idx = 2
    /\ videoFiles[1] = NameNoYear
    /\ NoYearFound

\* ------------------------------------------------------------------------
\* C19
\* ------------------------------------------------------------------------

\* the item asked for a show, by id or by search, and the catalog has
\* answered
AskedShow(i) ==
    /\ HasCall(i)
    /\ FirstCall(i).endpoint \in {"tvShows.details", "search.tvShows"}
    /\ FirstCall(i) \in DOMAIN memo

\* the one show the item is resolved to has no first-air date
ShowUndated(i) ==
    /\ AskedShow(i)
    /\ Len(Candidates(i)) = 1
    /\ Candidates(i)[1].first_air_date = <<>>

AskedEpisode(i) ==
    \E k \in DOMAIN calls :
        calls[k].item = i /\ calls[k].query.endpoint = "tvEpisode.details"

\* C19: an item whose one resolved show, found by id or by search, has no
\* first-air date is skipped as MissingAirDate; the episode details are
\* never asked for it and no filesystem call is made for it.
C19_MissingAirDateSkips ==
    \A i \in DOMAIN outcome :
        ShowUndated(i) =>
            /\ outcome[i] \in {Pending, Skipped("MissingAirDate")}
            /\ ~AskedEpisode(i)
            /\ \A r \in inflight :
                  r.item = i => r.query.endpoint # "tvEpisode.details"
            /\ \A k \in DOMAIN fsDone : fsDone[k].item # i
            /\ \A k \in DOMAIN log :
                  log[k].item = i => log[k].line \notin PlacementLines

\* a run has ended with an item skipped as MissingAirDate, its undated
\* show found by id
C19_Witness ==
    /\ \E i \in DOMAIN outcome :
          /\ ShowUndated(i)
          /\ FirstCall(i).endpoint = "tvShows.details"
          /\ outcome[i] = Skipped("MissingAirDate")
    /\ pc = "exited"

\* an undated show found by a search of two results
C19_BySearch ==
    \E i \in DOMAIN outcome :
        /\ ShowUndated(i)
        /\ FirstCall(i).endpoint = "search.tvShows"
        /\ Len(memo[FirstCall(i)]) = 2
        /\ outcome[i] = Skipped("MissingAirDate")

\* ------------------------------------------------------------------------
\* C20
\* ------------------------------------------------------------------------

\* the catalog has answered the episode query of the item with a record
EpisodeFound(i) ==
    /\ AskedEpisode(i)
    /\ calls[MaxPos({k \in DOMAIN calls : calls[k].item = i})].query
          \in DOMAIN memo
    /\ memo[calls[MaxPos({k \in DOMAIN calls : calls[k].item = i})].query]
          # <<>>

\* the title of the file name and the name of the episode record differ
\* once simplified
GuessDisagrees(i) ==
    /\ EpisodeParts[videoFiles[i]].episodeTitle # <<>>
    /\ simplify(EpisodeParts[videoFiles[i]].episodeTitle)
          # simplify(EpisodeOf(i).name)

FileWarning == "Warning: titles differ, using title from file"
CatalogWarning == "Warning: titles differ, using title from TMDB"

Warned(i, line) == \E k \in DOMAIN log : log[k].item = i /\ log[k].line = line

EndsWith(s, tail) ==
    Len(tail) <= Len(s) /\ SubSeq(s, Len(s) - Len(tail) + 1, Len(s)) = tail

\* "E<EE> <title>< - remainder>.<ext>": the end of the name of an episode
\* file with the title
TitledEnd(ctx, title) ==
    <<"E">> \o TwoDigits(ctx.episode) \o <<" ">> \o sanitizeFilename(title)
      \o (IF ctx.rest # <<>>
          THEN <<" ", "-", " ">> \o sanitizeFilename(ctx.rest)
          ELSE <<>>)
      \o <<".">> \o ctx.extension

\* every name the video of the item was given carries the title
NamedWith(i, title) ==
    /\ \A k \in DOMAIN log :
          IsVideoLine(log[k], i) =>
             EndsWith(log[k].arg, TitledEnd(EpisodeParts[videoFiles[i]], title))
    /\ \A k \in DOMAIN fsDone :
          IsVideoCall(fsDone[k], i) =>
             EndsWith(fsDone[k].dst,
                      TitledEnd(EpisodeParts[videoFiles[i]], title))

\* C20: when the episode title of the file name is not empty and differs,
\* once simplified, from the name of the episode in the catalog, a warning
\* is written and the item is not skipped: it goes on to placement, under
\* the title of the file name when the keep-file-episode flag is set and
\* under the name of the catalog otherwise; when the simplified titles are
\* the same no warning is written.
C20_DisagreementOnlyWarns ==
    \A i \in DOMAIN outcome :
        (outcome[i].status # "Pending" /\ EpisodeFound(i)) =>
            IF GuessDisagrees(i)
            THEN /\ WentToPlacement(i)
                 /\ Warned(i, IF cfg.keepFileEpisode THEN FileWarning
                                ELSE CatalogWarning)
                 /\ ~Warned(i, IF cfg.keepFileEpisode THEN CatalogWarning
                                 ELSE FileWarning)
                 /\ NamedWith(i, IF cfg.keepFileEpisode
                                 THEN EpisodeParts[videoFiles[i]].episodeTitle
                                 ELSE EpisodeOf(i).name)
            ELSE ~Warned(i, FileWarning) /\ ~Warned(i, CatalogWarning)

\* "Lost S01E02 Pi.mkv" met the episode "A:/B" of the catalog with the
\* keep-file-episode flag set: a warning was written and the file was
\* placed as "... S01E02 Pi.mkv"
C20_Witness ==
    \E i \in DOMAIN outcome :
        /\ outcome[i] = Placed
        /\ cfg.keepFileEpisode
        /\ videoFiles[i] = FileEpisode
        /\ EpisodeFound(i)
        /\ EpisodeOf(i) = EpisodeOther
        /\ Warned(i, FileWarning)
        /\ \E k \in DOMAIN fsDone :
              /\ IsVideoCall(fsDone[k], i)
              /\ EndsWith(fsDone[k].dst,
                          <<"S", "0", "1", "E", "0", "2", " ", "P", "i", ".",
                            "m", "k", "v">>)

\* the same file under the name of the catalog when the flag is not set
C20_CatalogTitle ==
    \E i \in DOMAIN outcome :
        /\ outcome[i] = Placed
        /\ ~cfg.keepFileEpisode
        /\ videoFiles[i] = FileEpisode
        /\ EpisodeFound(i)
        /\ Warned(i, CatalogWarning)
        /\ \E k \in DOMAIN fsDone :
              /\ IsVideoCall(fsDone[k], i)
              /\ EndsWith(fsDone[k].dst,
                          <<"S", "0", "1", "E", "0", "2", " ", "A", ".", "-",
                            "B", ".", "m", "k", "v">>)

\* no warning for "a:b" against "A:/B", which simplify to the same
C20_AgreeSilently ==
    \E i \in DOMAIN outcome :
        /\ outcome[i] = Placed
        /\ videoFiles[i] = FileEpisodeTagged
        /\ EpisodeFound(i)
        /\ EpisodeOf(i) = EpisodeOther
        /\ ~Warned(i, FileWarning) /\ ~Warned(i, CatalogWarning)

\* ------------------------------------------------------------------------
\* C21
\* ------------------------------------------------------------------------

\* the entries of series.json with a tmdbid whose simplified key is the
\* simplified text
EntriesFor(text) ==
    {n \in DOMAIN seriesData :
        /\ simplify(seriesData[n].key) = simplify(text)
        /\ seriesData[n].tmdbid # <<>>}

\* the show titles of three names, as they stand before the year hint is
\* taken off, and the year of the hint (0 without hint)
ShowTitles ==
    FileEpisode :> [full |-> <<"L", "o", "s", "t">>,
                    title |-> <<"L", "o", "s", "t">>, year |-> 0, tag |-> 0]
    @@ NameHinted :>
          [full |-> <<"L", "o", "s", "t", " ", "(", "2", "0", "1", "0", ")">>,
           title |-> <<"L", "o", "s", "t">>, year |-> 2010, tag |-> 0]
    @@ FileEpisodeTagged :>
          [full |-> <<"L", "o", "s", "t", " ", "(", "2", "0", "1", "0", ")">>,
           title |-> <<"L", "o", "s", "t">>, year |-> 2010, tag |-> 7]

\* the one query of the first file asks for the show of the id
AsksShowById(id) ==
    /\ \E r \in inflight :
          r.item = 1 /\ r.query.endpoint = "tvShows.details" /\ r.query.id = id
    /\ \A k \in DOMAIN calls : calls[k].query.endpoint # "search.tvShows"

\* the one query of the first file searches for the show
SearchesShow(title, year) ==
    \E r \in inflight :
        /\ r.item = 1
        /\ r.query.endpoint = "search.tvShows"
        /\ r.query.query = title
        /\ r.query.year = year

\* C21: for an episode, series.json is consulted only when the file name
\* has no [tmdbid-...] tag; an entry applies when its simplified key is the
\* simplified title as it stands before the year hint is taken off and its
\* tmdbid is not empty; the show is then fetched by that id and no show
\* search is made.
C21_OverrideTable ==
    (idx = 2 /\ videoFiles[1] \in DOMAIN ShowTitles) =>
        \E t \in {ShowTitles[videoFiles[1]]} :
            IF t.tag # 0 THEN AsksShowById(t.tag)
            ELSE IF EntriesFor(t.full) # {}
            THEN \E n \in EntriesFor(t.full) :
                    AsksShowById(ParseInt(seriesData[n].tmdbid))
            ELSE SearchesShow(t.title, t.year)

\* "Lost S01E02 Pi.mkv" is fetched as show 9, the id of the second entry
\* of its key, the first one having no tmdbid
C21_Witness ==
    /\ idx = 2
    /\ videoFiles[1] = FileEpisode
    /\ Len(seriesData) = 2
    /\ seriesData[1].tmdbid = <<>>
    /\ AsksShowById(9)

\* the tag of the name wins over an entry of series.json for its title
C21_TagWins ==
    /\ idx = 2
    /\ videoFiles[1] = FileEpisodeTagged
    /\ EntriesFor(ShowTitles[FileEpisodeTagged].full) # {}
    /\ AsksShowById(7)

\* an entry for the title without the year does not apply to a name with a
\* year hint
C21_HintedSearches ==
    /\ idx = 2
    /\ videoFiles[1] = NameHinted
    /\ EntriesFor(ShowTitles[NameHinted].title) # {}
    /\ SearchesShow(ShowTitles[NameHinted].title, 2010)

\* ------------------------------------------------------------------------
\* C22
\* ------------------------------------------------------------------------

HasPart(s, part) ==
    \E p \in 1..(Len(s) - Len(part) + 1) :
        SubSeq(s, p, p + Len(part) - 1) = part

\* C22: season and episode are 1-based: no parsed episode, no episode
\* lookup and no destination path has season 0 or episode 0.
C22_OneBased ==
    /\ \A r \in inflight :
          r.ctx.kind \in {"episode", "episodeInfo"}
             => r.ctx.season >= 1 /\ r.ctx.episode >= 1
    /\ \A k \in DOMAIN calls :
          calls[k].query.endpoint = "tvEpisode.details"
             => calls[k].query.season >= 1 /\ calls[k].query.episode >= 1
    /\ \A k \in DOMAIN fsDone :
          /\ ~HasPart(fsDone[k].dst,
                      <<"/", "S", "e", "a", "s", "o", "n", " ", "0", "0">>)
          /\ ~HasPart(fsDone[k].dst, <<"E", "0", "0", " ">>)

\* names with episode numbers of three digits are looked up under them
C22_ThreeDigits ==
    \E k \in DOMAIN calls :
        /\ calls[k].query.endpoint = "tvEpisode.details"
        /\ calls[k].query.episode = 102

\* "Lost S00E00 Pi.mkv" was looked up as episode 0 of season 0 and moved
\* to ".../Season 00/Lost (2005) S00E00 Pi.mkv"
C22_ZeroPlaced ==
    /\ \E k \in DOMAIN calls :
          /\ calls[k].query.endpoint = "tvEpisode.details"
          /\ calls[k].query.season = 0
          /\ calls[k].query.episode = 0
    /\ \E k \in DOMAIN fsDone :
          /\ fsDone[k].op = "rename"
          /\ fsDone[k].dst =
                <<"t", "v", "/", "L", "o", "s", "t", " ", "(", "2", "0", "0",
                  "4", ")", " ", "[", "t", "m", "d", "b", "i", "d", "-", "7",
                  "]", "/", "S", "e", "a", "s", "o", "n", " ", "0", "0", "/",
                  "L", "o", "s", "t", " ", "(", "2", "0", "0", "5", ")", " ",
                  "S", "0", "0", "E", "0", "0", " ", "P", "i", ".", "m", "k",
                  "v">>

\* ------------------------------------------------------------------------
\* C23
\* ------------------------------------------------------------------------

\* the name of the file of a path
FileNameOf(path) ==
    From(path, MaxPos({n \in DOMAIN path : path[n] = "/"}) + 1)

\* the places of " - " in a name
SeparatorsIn(name) ==
    {p \in 1..(Len(name) - 2) : SubSeq(name, p, p + 2) = <<" ", "-", " ">>}

\* the first " - " of the name comes right after the "]" of the tag
FirstSeparatorFollowsTag(name) ==
    \A p \in SeparatorsIn(name) :
        (\A q \in SeparatorsIn(name) : p <= q) => (p > 1 /\ name[p - 1] = "]")

\* C23: in the file name of every movie destination the title holds no
\* " - ": the first " - " of the name is the one between the
\* [tmdbid-<id>] tag and the remainder.
C23_TitleHasNoSeparator ==
    \A i \in MovieItemsPlaced :
        \A k \in DOMAIN log :
            IsVideoLine(log[k], i) =>
                FirstSeparatorFollowsTag(FileNameOf(log[k].arg))

\* a movie was moved to ".../A. - B - C- () [tmdbid-4] - .mkv"
C23_SeparatorsLeft ==
    \E k \in DOMAIN fsDone :
        /\ fsDone[k].op = "rename"
        /\ FileNameOf(fsDone[k].dst) =
              <<"A", ".", " ", "-", " ", "B", " ", "-", " ", "C", "-", " ",
                "(", ")", " ", "[", "t", "m", "d", "b", "i", "d", "-", "4",
                "]", " ", "-", " ", ".", "m", "k", "v">>

\* ------------------------------------------------------------------------
\* C24
\* ------------------------------------------------------------------------

\* the file of position i is somewhere in the filesystem
Exists(i) == \E p \in DOMAIN fs.files : fs.files[p] = i

\* C24: in move mode no video is lost: the content of every video of the
\* incoming directory is in the incoming directory or in a destination
\* tree, whatever the files and the answers of the catalog; a video placed
\* where another was placed before does not replace it.
C24_NoVideoLost ==
    ~cfg.link =>
        \A i \in DOMAIN listing :
            IsVideo(i) => InIncoming(i) \/ Arrived(i)

\* two videos were moved to one destination and the first is gone
C24_Overwritten ==
    /\ ~cfg.link
    /\ \E k, n \in DOMAIN fsDone :
          /\ k < n
          /\ fsDone[k].op = "rename"
          /\ fsDone[n].op = "rename"
          /\ fsDone[k].src = Join(IncomingPath, FileTagged)
          /\ fsDone[n].src = Join(IncomingPath, FileTaggedAgain)
          /\ fsDone[k].dst = fsDone[n].dst
    /\ ~Exists(PosOf(FileTagged))

\* ------------------------------------------------------------------------
\* C25
\* ------------------------------------------------------------------------

\* a call carried out for a sidecar: neither a mkdir nor the transfer of a
\* video
IsSidecarCall(c) ==
    /\ c.op # "mkdir"
    /\ \A i \in DOMAIN videoFiles : c.src # Join(IncomingPath, videoFiles[i])

\* C25: distinct sidecar files are given distinct destination names: no
\* transfer of a sidecar goes where the transfer of another sidecar went.
C25_SidecarsApart ==
    \A k, n \in DOMAIN fsDone :
        ( /\ IsSidecarCall(fsDone[k])
          /\ IsSidecarCall(fsDone[n])
          /\ fsDone[k].src # fsDone[n].src )
        => fsDone[k].dst # fsDone[n].dst

\* the subtitles ".pt-BR.srt" and ".pt-PT.srt" of one video were moved to
\* one name, and the first of them is gone
C25_SubtitleReplaced ==
    /\ \E k, n \in DOMAIN fsDone :
          /\ fsDone[k].src = Join(IncomingPath, FileTaggedPtBr)
          /\ fsDone[n].src = Join(IncomingPath, FileTaggedPtPt)
          /\ fsDone[k].dst = fsDone[n].dst
    /\ ~Exists(PosOf(FileTaggedPtBr))

\* ------------------------------------------------------------------------
\* C26
\* ------------------------------------------------------------------------

ParseFailures == {"NoExtension", "NoYearFound", "NoSeasonEpisode"}

\* the item is skipped in this step
SkippedNow(i) ==
    /\ i \in DOMAIN outcome
    /\ outcome[i].status = "Pending"
    /\ outcome'[i].status = "Skipped"

\* C26: an item that ends Skipped leaves the filesystem as it was: from
\* its beginning to its skip no filesystem call is made for it, no folder
\* is created and no file is moved or linked; and an item skipped for a
\* parse failure has sent no query to the catalog.
C26_SkipTouchesNothing ==
    [][\A i \in DOMAIN outcome' :
          SkippedNow(i) =>
             /\ fs' = fs
             /\ fsDone' = fsDone
             /\ \A k \in DOMAIN fsDone' : fsDone'[k].item # i
             /\ \A k \in DOMAIN log' :
                   log'[k].item = i => log'[k].line \notin PlacementLines
             /\ outcome'[i].reason \in ParseFailures
                   => \A k \in DOMAIN calls' : calls'[k].item # i]_vars

\* a first run in move mode has ended with one item skipped for want of a
\* year, without a query, and another skipped as Ambiguous after its
\* search, and the filesystem is as it was before the run
C26_Witness ==
    /\ pc = "exited"
    /\ runNo = 1
    /\ ~cfg.dryRun
    /\ fs = InitialFs(listing, cfg)
    /\ \E i, j \in DOMAIN outcome :
          /\ outcome[i] = Skipped("NoYearFound")
          /\ ~HasCall(i)
          /\ outcome[j] = Skipped("Ambiguous")
          /\ HasCall(j)

\* ------------------------------------------------------------------------
\* C27
\* ------------------------------------------------------------------------

\* C27: isEpisodeFile and parseEpisodeFilename agree: a file with an
\* extension that is handled as an episode is never skipped for want of a
\* season/episode token; and of an SxxEyy and an NxM token the parser
\* takes the SxxEyy one wherever they stand.
C27_ClassifierAndParserAgree ==
    idx = 2 =>
        /\ HasEpisodeWord(videoFiles[1])
              => outcome[1] # Skipped("NoSeasonEpisode")
        /\ videoFiles[1] = NameBothTokens =>
              \E r \in inflight :
                  /\ r.ctx.kind = "episode"
                  /\ r.ctx.season = 1
                  /\ r.ctx.episode = 2

\* "A 1x234[tmdbid-7] 5.mkv" was handed to the episode parser and skipped
\* there for want of a token, before any query
C27_GluedSkipped ==
    /\ idx = 2
    /\ videoFiles[1] = NameGlued
    /\ HasEpisodeWord(NameGlued)
    /\ outcome[1] = Skipped("NoSeasonEpisode")
    /\ calls = <<>>

\* the SxxEyy token of "A 3x4 S01E02.mkv" is taken, not the NxM token
\* before it
C27_SxxEyyFirst ==
    /\ idx = 2
    /\ videoFiles[1] = NameBothTokens
    /\ \E r \in inflight : r.ctx.season = 1 /\ r.ctx.episode = 2

\* ------------------------------------------------------------------------
\* C28
\* ------------------------------------------------------------------------

\* the item went on to placement under a record of the answer that has the
\* simplified title and the year of the query
PlacedUnderMatch(i) ==
    /\ WentToPlacement(i)
    /\ \E n \in TitleAndYearMatches(i) :
          SelectedMovie(i, memo[FirstCall(i)][n])

\* C28, as stated: every movie resolved through a search has the
\* simplified title of the query and a release date that starts with the
\* year of the query, also when it is the only record of the answer.
C28_SearchedMatchesAsStated ==
    \A i \in DOMAIN outcome :
        (SearchedMovie(i) /\ WentToPlacement(i)) => PlacedUnderMatch(i)

\* C28: a movie resolved out of a search answer of several records has the
\* simplified title of the query and a release date that starts with the
\* year of the query; the only record of an answer is taken as it is,
\* without the comparison.
C28_SearchedMatches ==
    \A i \in DOMAIN outcome :
        (outcome[i].status # "Pending" /\ SearchedMovie(i)) =>
            /\ (Len(memo[FirstCall(i)]) > 1 /\ WentToPlacement(i))
                  => PlacedUnderMatch(i)
            /\ Len(memo[FirstCall(i)]) = 1
                  => SelectedMovie(i, memo[FirstCall(i)][1])

\* the search for "Up" of 2009 answers with the one record of 1984, and the
\* item is placed under it
C28_Witness ==
    \E i \in DOMAIN outcome :
        /\ outcome[i] = Placed
        /\ SearchedMovie(i)
        /\ FirstCall(i).year = 2009
        /\ memo[FirstCall(i)] = <<MovieUpOld>>
        /\ TitleAndYearMatches(i) = {}
        /\ SelectedMovie(i, MovieUpOld)

\* a record is selected out of an answer of several
C28_SeveralNarrowed ==
    \E i \in DOMAIN outcome :
        /\ outcome[i] = Placed
        /\ SearchedMovie(i)
        /\ Len(memo[FirstCall(i)]) > 1
        /\ PlacedUnderMatch(i)

\* ------------------------------------------------------------------------
\* C29
\* ------------------------------------------------------------------------

\* some name the video of the item was given has no episode title
NamedUntitled(i) ==
    \/ \E k \in DOMAIN log :
          /\ IsVideoLine(log[k], i)
          /\ EndsWith(log[k].arg, TitledEnd(EpisodeParts[videoFiles[i]], <<>>))
    \/ \E k \in DOMAIN fsDone :
          /\ IsVideoCall(fsDone[k], i)
          /\ EndsWith(fsDone[k].dst,
                      TitledEnd(EpisodeParts[videoFiles[i]], <<>>))

\* C29: the episode title of a destination file name is never empty when
\* the episode record of the catalog has a name: with the keep-file-episode
\* flag set and no title guess in the file name, the name of the catalog
\* is used.
C29_TitleNeverEmpty ==
    \A i \in DOMAIN outcome :
        ( /\ outcome[i].status # "Pending"
          /\ EpisodeFound(i)
          /\ sanitizeFilename(EpisodeOf(i).name) # <<>> )
        => /\ ~NamedUntitled(i)
           /\ (cfg.keepFileEpisode
                  /\ EpisodeParts[videoFiles[i]].episodeTitle = <<>>)
                 => NamedWith(i, EpisodeOf(i).name)

\* "Lost S01E02.mkv" met the episode "Pi" of the catalog with the
\* keep-file-episode flag set and was placed as "... S01E02 .mkv"
C29_EmptyTitle ==
    \E i \in DOMAIN outcome :
        /\ outcome[i] = Placed
        /\ cfg.keepFileEpisode
        /\ videoFiles[i] = FileEpisodeBare
        /\ EpisodeFound(i)
        /\ EpisodeOf(i) = EpisodePi
        /\ \E k \in DOMAIN fsDone :
              /\ IsVideoCall(fsDone[k], i)
              /\ EndsWith(fsDone[k].dst,
                          <<"S", "0", "1", "E", "0", "2", " ", ".", "m", "k",
                            "v">>)

\* the same file under the name of the catalog when the flag is not set
C29_CatalogName ==
    \E i \in DOMAIN outcome :
        /\ outcome[i] = Placed
        /\ ~cfg.keepFileEpisode
        /\ videoFiles[i] = FileEpisodeBare
        /\ EpisodeFound(i)
        /\ EpisodeOf(i) = EpisodePi
        /\ NamedWith(i, EpisodePi.name)
        /\ ~NamedUntitled(i)

\* ------------------------------------------------------------------------
\* C30
\* ------------------------------------------------------------------------

\* the incoming file, or one that goes with it, is the source of the call
IsSourceOf(f, call) ==
    StartsWith(call.src, Join(IncomingPath, StripExtension(f)))

\* C30: link mode is idempotent across runs: an item that a run in link
\* mode placed (its links made, not a dry run) is left out of the next run
\* in link mode over the same directories; that run issues no catalog query
\* for it and makes no directory and no link for it or for the files that
\* go with it, so no call of it fails on a name that exists; and when the
\* run before placed every video, the next one does nothing at all and
\* exits with code 0.
C30_LinkRunsIdempotent ==
    (cfg.link /\ ~cfg.dryRun /\ runNo > 1) =>
        /\ \A f \in prevPlaced :
              /\ LinkedInto(f)
              /\ f \notin Range(videoFiles)
              /\ \A k \in DOMAIN calls : videoFiles[calls[k].item] # f
              /\ \A k \in DOMAIN fsDone :
                    /\ videoFiles[fsDone[k].item] # f
                    /\ ~IsSourceOf(f, fsDone[k])
              /\ \A k \in DOMAIN log :
                    log[k].item # 0 => videoFiles[log[k].item] # f
        /\ (prevPlaced # {} /\ IncomingVideos \subseteq prevPlaced) =>
              /\ videoFiles = <<>>
              /\ calls = <<>>
              /\ fsDone = <<>>
              /\ ~rejected
              /\ pc = "exited" => exitCode = 0

\* the run before linked "Up (2009).mkv" and its subtitle and skipped
\* "Dune.avi"; this run has taken up "Dune.avi" alone and has ended
\* without a filesystem call
C30_Witness ==
    /\ cfg.link /\ ~cfg.dryRun
    /\ runNo = 2
    /\ pc = "exited"
    /\ prevPlaced = {FileUp}
    /\ LinksOf(FileUp) > 1
    /\ videoFiles = <<FileDune>>
    /\ outcome[1].status = "Skipped"
    /\ fsDone = <<>>
    /\ \E k \in DOMAIN prevLog : prevLog[k].line = "Link subtitle to"

\* the run before placed every video of the directory
C30_NothingToDo ==
    /\ cfg.link /\ ~cfg.dryRun
    /\ runNo = 2
    /\ pc = "exited"
    /\ exitCode = 0
    /\ prevPlaced = IncomingVideos
    /\ Cardinality(prevPlaced) = 2

====
